---- MODULE Spec2Model ----
(***************************************************************************)
(* A model of fusectx's resolver package (internal/resolver):              *)
(* ParseFrontmatter, Resolve, resolvePath, ValidateChain and               *)
(* GetDependencyChain.  The recursion of Resolve / GetDependencyChain is   *)
(* unfolded into an explicit call stack, one frame per active call, so     *)
(* that the shared `visited` map and the propagation of errors can be      *)
(* observed between the steps of the recursion.                            *)
(*                                                                         *)
(* Text is a sequence of one-character strings.  A file is a sequence of   *)
(* lines as bufio.Scanner delivers them; a line carries its characters     *)
(* (txt) and what yaml.v3 makes of it when it is part of the frontmatter   *)
(* block (y).  A path is a record [abs, segs]: whether it is rooted and    *)
(* its slash-separated segments.                                           *)
(*                                                                         *)
(* parked holds the calls of goroutines that are not running at the        *)
(* moment, and cli what the last command of cmd/fusectx was given and      *)
(* found.  visits is a history: the paths the running top-level call has   *)
(* marked in `visited`, in the order it marked them.                       *)
(***************************************************************************)
EXTENDS Integers, Sequences, FiniteSets, TLC

VARIABLES fs, cwdOK, start, stack, visited, ret, op, results, parked, cli, visits

vars == <<fs, cwdOK, start, stack, visited, ret, op, results, parked, cli, visits>>

(***************************************************************************)
(* Bounds of the model.                                                    *)
(***************************************************************************)
MaxCalls == 2
MaxRefs == 4
MaxIncludes == 2
MaxFaults == 1

(***************************************************************************)
(* Text.                                                                   *)
(***************************************************************************)
NL == "\n"
SP == " "
Dash == "-"

WhiteSpace == {NL, SP}

RECURSIVE TrimLeft(_)
TrimLeft(s) ==
    IF s = <<>> THEN <<>>
    ELSE IF Head(s) \in WhiteSpace THEN TrimLeft(Tail(s))
    ELSE s

RECURSIVE TrimRight(_)
TrimRight(s) ==
    IF s = <<>> THEN <<>>
    ELSE IF s[Len(s)] \in WhiteSpace THEN TrimRight(SubSeq(s, 1, Len(s) - 1))
    ELSE s

TrimSpace(s) == TrimRight(TrimLeft(s))

\* strings.Join(elems, sep) on sequences of texts
RECURSIVE Join(_, _)
Join(elems, sep) ==
    IF elems = <<>> THEN <<>>
    ELSE IF Len(elems) = 1 THEN elems[1]
    ELSE elems[1] \o sep \o Join(Tail(elems), sep)

frontmatterSeparator == <<Dash, Dash, Dash>>

(***************************************************************************)
(* Paths (path/filepath on a slash-separated file system).                 *)
(***************************************************************************)
Path(a, s) == [abs |-> a, segs |-> s]

EmptyPath == Path(FALSE, <<>>)

IsAbs(p) == p.abs

\* filepath.Clean: drop "." segments, let ".." cancel the segment before it;
\* ".." at the root of a rooted path is dropped, and kept in a relative one.
RECURSIVE CleanSegs(_, _, _)
CleanSegs(abs, done, rest) ==
    IF rest = <<>> THEN done
    ELSE IF Head(rest) = "." THEN CleanSegs(abs, done, Tail(rest))
    ELSE IF Head(rest) = ".."
         THEN IF done # <<>> /\ done[Len(done)] # ".."
              THEN CleanSegs(abs, SubSeq(done, 1, Len(done) - 1), Tail(rest))
              ELSE IF abs THEN CleanSegs(abs, done, Tail(rest))
              ELSE CleanSegs(abs, Append(done, ".."), Tail(rest))
    ELSE CleanSegs(abs, Append(done, Head(rest)), Tail(rest))

Clean(p) == Path(p.abs, CleanSegs(p.abs, <<>>, p.segs))

\* filepath.Join(base, path): concatenate and Clean
FilepathJoin(base, p) == Clean(Path(base.abs, base.segs \o p.segs))

\* filepath.Dir of a clean path with at least one segment
Dir(p) == Path(p.abs, IF p.segs = <<>> THEN <<>> ELSE SubSeq(p.segs, 1, Len(p.segs) - 1))

\* the process working directory
Cwd == Path(TRUE, <<>>)

\* filepath.Abs: a rooted path is cleaned, a relative one is joined to the
\* working directory; it fails only when the working directory cannot be read
AbsFails(p, wdOK) == ~IsAbs(p) /\ ~wdOK

\* an Abs that roots the path and leaves its segments as they are
AbsNoClean(p) == IF IsAbs(p) THEN p ELSE Path(TRUE, Cwd.segs \o p.segs)

Abs(p) == IF IsAbs(p) THEN Clean(p) ELSE FilepathJoin(Cwd, p)

\* a resolvePath that leaves a relative path to the working directory
resolvePathFromCwd(path, basePath) == path

resolvePath(path, basePath) ==
    IF IsAbs(path) THEN path ELSE FilepathJoin(basePath, path)

(***************************************************************************)
(* Errors.  A Go error built with fmt.Errorf("...: %w", err) is a chain of *)
(* messages; it is modelled as the sequence of its layers, outermost       *)
(* first, each layer holding the message kind and the path it prints.  nil *)
(* is the empty sequence.                                                  *)
(***************************************************************************)
NoError == <<>>

Layer(k, p) == [kind |-> k, path |-> p]

\* fmt.Errorf(msg + ": %w", err)
Wrap(k, p, err) == <<Layer(k, p)>> \o err

\* the innermost message that names a path: what the failure is about
RECURSIVE Cause(_)
Cause(err) ==
    IF Len(err) = 1 THEN err[1]
    ELSE IF err[1].kind \in {"circular", "open", "parsefile", "abs"} THEN err[1]
    ELSE Cause(Tail(err))

\* a circular-dependency message that leaves the path out
ErrCircularNoPath(absPath) == <<Layer("circular", EmptyPath)>>

ErrCircular(absPath) == <<Layer("circular", absPath)>>
ErrOpen(absPath) == Wrap("open", absPath, <<Layer("enoent", absPath)>>)
\* a parse error that names the file and drops what the parser reported
ErrParseFileNoCause(absPath, err) == <<Layer("parsefile", absPath)>>

ErrParseFile(absPath, err) == Wrap("parsefile", absPath, err)
ErrAbs(filePath) == Wrap("abs", filePath, <<Layer("getwd", EmptyPath)>>)

(***************************************************************************)
(* Lines and the frontmatter parser.                                       *)
(***************************************************************************)
YNone == [k |-> "none", refs |-> <<>>]
YBad == [k |-> "bad", refs |-> <<>>]

\* a line of ordinary text: blank lines are empty YAML, other text is not a
\* YAML mapping
TextLine(txt) == [txt |-> txt, y |-> IF TrimSpace(txt) = <<>> THEN YNone ELSE YBad]
\* `extends: <ref>`
ExtendsLine(ref) == [txt |-> <<"E">>, y |-> [k |-> "extends", refs |-> <<ref>>]]
\* `includes: [<ref>, ...]`
IncludesLine(refs) == [txt |-> <<"I">>, y |-> [k |-> "includes", refs |-> refs]]
\* a key the Frontmatter struct does not declare
UnknownKeyLine == [txt |-> <<"K">>, y |-> YNone]
\* a line longer than bufio.Scanner's token limit
LongLine == [txt |-> <<"L">>, y |-> [k |-> "toolong", refs |-> <<>>]]
SepLine == TextLine(frontmatterSeparator)

IsSeparator(line) == TrimSpace(line.txt) = frontmatterSeparator

Frontmatter(e, i) == [Extends |-> e, Includes |-> i]

ZeroFrontmatter == Frontmatter(EmptyPath, <<>>)

SelectKey(ls, key) == SelectSeq(ls, LAMBDA l : l.y.k = key)

\* yaml.Unmarshal into a Frontmatter: a line that is no mapping entry and a
\* key given twice are errors, unknown keys are ignored
YamlFails(ls) ==
    \/ \E i \in DOMAIN ls : ls[i].y.k = "bad"
    \/ Len(SelectKey(ls, "extends")) > 1
    \/ Len(SelectKey(ls, "includes")) > 1

YamlUnmarshal(ls) ==
    Frontmatter(
        IF SelectKey(ls, "extends") = <<>> THEN EmptyPath
        ELSE SelectKey(ls, "extends")[1].y.refs[1],
        IF SelectKey(ls, "includes") = <<>> THEN <<>>
        ELSE SelectKey(ls, "includes")[1].y.refs)

\* a scanner loop in which every separator line switches the mode: one in the
\* content opens a frontmatter block again
RECURSIVE ScanLinesToggle(_, _, _, _, _)
ScanLinesToggle(ls, i, inFrontmatter, frontmatterLines, contentLines) ==
    IF i > Len(ls)
    THEN [frontmatterLines |-> frontmatterLines, contentLines |-> contentLines]
    ELSE IF IsSeparator(ls[i])
         THEN ScanLinesToggle(ls, i + 1, ~inFrontmatter, frontmatterLines, contentLines)
    ELSE IF inFrontmatter
         THEN ScanLinesToggle(ls, i + 1, TRUE, Append(frontmatterLines, ls[i]), contentLines)
    ELSE ScanLinesToggle(ls, i + 1, FALSE, frontmatterLines, Append(contentLines, ls[i]))

\* the scanner loop of ParseFrontmatter: i is len(lines) after the append
RECURSIVE ScanLines(_, _, _, _, _)
ScanLines(ls, i, inFrontmatter, frontmatterLines, contentLines) ==
    IF i > Len(ls)
    THEN [frontmatterLines |-> frontmatterLines, contentLines |-> contentLines]
    ELSE IF i = 1 /\ IsSeparator(ls[i])
         THEN ScanLines(ls, i + 1, TRUE, frontmatterLines, contentLines)
    ELSE IF inFrontmatter
         THEN IF IsSeparator(ls[i])
              THEN ScanLines(ls, i + 1, FALSE, frontmatterLines, contentLines)
              ELSE ScanLines(ls, i + 1, TRUE, Append(frontmatterLines, ls[i]), contentLines)
    ELSE IF i > 1 \/ ~IsSeparator(ls[i])
         THEN ScanLines(ls, i + 1, FALSE, frontmatterLines, Append(contentLines, ls[i]))
         ELSE ScanLines(ls, i + 1, FALSE, frontmatterLines, contentLines)

LineTexts(ls) == [i \in DOMAIN ls |-> ls[i].txt]

\* a ParseFrontmatter that takes the lines after a delimiter that is never
\* closed for the body
ParseFrontmatterUnclosedAsBody(ls) ==
    LET scan == ScanLines(ls, 1, FALSE, <<>>, <<>>)
        unclosed == /\ ls # <<>>
                    /\ scan.contentLines = <<>>
                    /\ Len(scan.frontmatterLines) = Len(ls) - 1
    IN  IF \E i \in DOMAIN ls : ls[i].y.k = "toolong"
        THEN [err |-> Wrap("readfile", EmptyPath, <<Layer("toolong", EmptyPath)>>),
              fm |-> ZeroFrontmatter, content |-> <<>>]
        ELSE IF unclosed
        THEN [err |-> NoError, fm |-> ZeroFrontmatter,
              content |-> Join(LineTexts(scan.frontmatterLines), <<NL>>)]
        ELSE IF Len(scan.frontmatterLines) > 0 /\ YamlFails(scan.frontmatterLines)
        THEN [err |-> Wrap("parsefm", EmptyPath, <<Layer("yaml", EmptyPath)>>),
              fm |-> ZeroFrontmatter, content |-> <<>>]
        ELSE [err |-> NoError,
              fm |-> IF Len(scan.frontmatterLines) > 0
                     THEN YamlUnmarshal(scan.frontmatterLines)
                     ELSE ZeroFrontmatter,
              content |-> Join(LineTexts(scan.contentLines), <<NL>>)]

ParseFrontmatter(ls) ==
    LET scan == ScanLines(ls, 1, FALSE, <<>>, <<>>)
    IN  IF \E i \in DOMAIN ls : ls[i].y.k = "toolong"
        THEN [err |-> Wrap("readfile", EmptyPath, <<Layer("toolong", EmptyPath)>>),
              fm |-> ZeroFrontmatter, content |-> <<>>]
        ELSE IF Len(scan.frontmatterLines) > 0 /\ YamlFails(scan.frontmatterLines)
        THEN [err |-> Wrap("parsefm", EmptyPath, <<Layer("yaml", EmptyPath)>>),
              fm |-> ZeroFrontmatter, content |-> <<>>]
        ELSE [err |-> NoError,
              fm |-> IF Len(scan.frontmatterLines) > 0
                     THEN YamlUnmarshal(scan.frontmatterLines)
                     ELSE ZeroFrontmatter,
              content |-> Join(LineTexts(scan.contentLines), <<NL>>)]

(***************************************************************************)
(* The call stack.                                                         *)
(***************************************************************************)
NoResult == [text |-> <<>>, chain |-> <<>>, err |-> NoError]

\* the locals of one call; onEntry is a history field, the visited set the
\* call was handed, which no step reads
Frame(fn, filePath, onEntry) ==
    [fn |-> fn, filePath |-> filePath, absPath |-> EmptyPath, pc |-> "entry",
     fm |-> ZeroFrontmatter, content |-> <<>>, result |-> <<>>, chain |-> <<>>,
     idx |-> 0, onEntry |-> onEntry]

Top == stack[Len(stack)]

Pop == SubSeq(stack, 1, Len(stack) - 1)

SetTop(f) == [stack EXCEPT ![Len(stack)] = f]

Running(pc) == stack # <<>> /\ Top.pc = pc

\* a WriteString that puts the new text in front of what is written
WriteStringInFront(result, s) == s \o result

\* strings.Builder.WriteString
WriteString(result, s) == result \o s

\* a return taken before the deferred delete is registered
ReturnEarly(r) ==
    /\ stack' = Pop
    /\ ret' = r
    /\ UNCHANGED visited

\* a return that leaves the path in visited
ReturnNoDelete(r) ==
    /\ stack' = Pop
    /\ ret' = r
    /\ UNCHANGED visited

\* a return taken after `defer func() { delete(visited, absPath) }()`
Return(r) ==
    /\ stack' = Pop
    /\ ret' = r
    /\ visited' = visited \ {Top.absPath}

\* the recursive call Resolve(p, visited) / GetDependencyChain(p, visited)
Recurse(p, pc) ==
    /\ stack' = Append(SetTop([Top EXCEPT !.pc = pc]), Frame(Top.fn, p, visited))
    /\ ret' = NoResult
    /\ UNCHANGED visited

Failure(err) == [text |-> <<>>, chain |-> <<>>, err |-> err]

(***************************************************************************)
(* The file system.  fs maps the absolute path of every existing file to   *)
(* its lines; os.Open fails on any other path.                             *)
(***************************************************************************)
Exists(p) == p \in DOMAIN fs

(***************************************************************************)
(* Top-level calls.  op is the exported function being run ("none" between *)
(* calls); results collects what each call returned.  A caller of Resolve  *)
(* or GetDependencyChain passes nil (a fresh map is made) or a map of its  *)
(* own, here the one left by the previous call; ValidateChain always       *)
(* passes nil.                                                             *)
(***************************************************************************)
\* no goroutine is waiting, no command has been given
NoParked == <<>>

CanCall == op = "none" /\ stack = <<>> /\ parked = NoParked /\ Len(results) < MaxCalls

Invoke(o, fn, fresh) ==
    /\ CanCall
    /\ op' = o
    /\ visited' = IF fresh THEN {} ELSE visited
    /\ stack' = <<Frame(fn, start, visited')>>
    /\ ret' = NoResult
    /\ visits' = <<>>
    /\ UNCHANGED <<fs, cwdOK, start, results, parked, cli>>

CallResolve == \E fresh \in BOOLEAN : Invoke("Resolve", "Resolve", fresh)

CallGetDependencyChain ==
    \E fresh \in BOOLEAN : Invoke("GetDependencyChain", "GetDependencyChain", fresh)

\* a ValidateChain that walks the chain with GetDependencyChain
CallValidateChainByChain == Invoke("ValidateChain", "GetDependencyChain", TRUE)

CallValidateChain == Invoke("ValidateChain", "Resolve", TRUE)

\* what the exported function hands back to its caller
Outcome(o, r) ==
    [op |-> o,
     text |-> IF o \in {"Resolve", "go Resolve"} THEN r.text ELSE <<>>,
     chain |-> IF o = "GetDependencyChain" THEN r.chain ELSE <<>>,
     err |-> r.err,
     visits |-> visits]

Complete ==
    /\ op # "none"
    /\ stack = <<>>
    /\ results' = Append(results, Outcome(op, ret))
    /\ op' = "none"
    /\ UNCHANGED <<fs, cwdOK, start, stack, visited, ret, parked, cli, visits>>

(***************************************************************************)
(* Resolve and GetDependencyChain, step by step.                           *)
(***************************************************************************)
Env == <<fs, cwdOK, start, op, results, parked, cli>>

\* Env and the history
EnvH == <<Env, visits>>

\* filepath.Abs fails
EntryAbsError ==
    /\ Running("entry")
    /\ AbsFails(Top.filePath, cwdOK)
    /\ ReturnEarly(Failure(ErrAbs(Top.filePath)))
    /\ UNCHANGED EnvH

\* visited[absPath] is set: the path is being resolved further up the stack
EntryCircular ==
    /\ Running("entry")
    /\ ~AbsFails(Top.filePath, cwdOK)
    /\ Abs(Top.filePath) \in visited
    /\ ReturnEarly(Failure(ErrCircular(Abs(Top.filePath))))
    /\ UNCHANGED EnvH

\* an EntryMark that goes on without recording the path in visited
EntryMarkUnrecorded ==
    /\ Running("entry")
    /\ ~AbsFails(Top.filePath, cwdOK)
    /\ Abs(Top.filePath) \notin visited
    /\ stack' = SetTop([Top EXCEPT !.absPath = Abs(Top.filePath),
                                   !.pc = "open",
                                   !.chain = IF Top.fn = "GetDependencyChain"
                                             THEN <<Abs(Top.filePath)>> ELSE <<>>])
    /\ UNCHANGED <<visited, ret>>
    /\ visits' = Append(visits, Abs(Top.filePath))
    /\ UNCHANGED Env

\* visited[absPath] = true, the delete is deferred; GetDependencyChain
\* starts its chain with the path
EntryMark ==
    /\ Running("entry")
    /\ ~AbsFails(Top.filePath, cwdOK)
    /\ Abs(Top.filePath) \notin visited
    /\ visited' = visited \cup {Abs(Top.filePath)}
    /\ stack' = SetTop([Top EXCEPT !.absPath = Abs(Top.filePath),
                                   !.pc = "open",
                                   !.chain = IF Top.fn = "GetDependencyChain"
                                             THEN <<Abs(Top.filePath)>> ELSE <<>>])
    /\ UNCHANGED ret
    /\ visits' = Append(visits, Abs(Top.filePath))
    /\ UNCHANGED Env

\* an OpenError that returns without the deferred delete
OpenErrorNoCleanup ==
    /\ Running("open")
    /\ ~Exists(Top.absPath)
    /\ ReturnNoDelete(Failure(ErrOpen(Top.absPath)))
    /\ UNCHANGED EnvH

OpenError ==
    /\ Running("open")
    /\ ~Exists(Top.absPath)
    /\ Return(Failure(ErrOpen(Top.absPath)))
    /\ UNCHANGED EnvH

\* a ParseError that returns without the deferred delete
ParseErrorNoCleanup ==
    /\ Running("open")
    /\ Exists(Top.absPath)
    /\ ParseFrontmatter(fs[Top.absPath]).err # NoError
    /\ ReturnNoDelete(Failure(ErrParseFile(Top.absPath, ParseFrontmatter(fs[Top.absPath]).err)))
    /\ UNCHANGED EnvH

ParseError ==
    /\ Running("open")
    /\ Exists(Top.absPath)
    /\ ParseFrontmatter(fs[Top.absPath]).err # NoError
    /\ Return(Failure(ErrParseFile(Top.absPath, ParseFrontmatter(fs[Top.absPath]).err)))
    /\ UNCHANGED EnvH

ParseOK ==
    /\ Running("open")
    /\ Exists(Top.absPath)
    /\ LET parsed == ParseFrontmatter(fs[Top.absPath])
       IN  /\ parsed.err = NoError
           /\ stack' = SetTop([Top EXCEPT !.pc = "extends",
                                          !.fm = parsed.fm,
                                          !.content = IF Top.fn = "Resolve"
                                                      THEN parsed.content ELSE <<>>])
    /\ UNCHANGED <<visited, ret>>
    /\ UNCHANGED EnvH

extendsPath(f) == resolvePath(f.fm.Extends, Dir(f.absPath))

\* an includeFullPath that lets GetDependencyChain walk the peers last to first
includeFullPathBackwards(f) ==
    IF f.fn = "GetDependencyChain"
    THEN resolvePath(f.fm.Includes[Len(f.fm.Includes) + 1 - f.idx], Dir(f.absPath))
    ELSE resolvePath(f.fm.Includes[f.idx], Dir(f.absPath))

includeFullPath(f) == resolvePath(f.fm.Includes[f.idx], Dir(f.absPath))

ExtendsCall ==
    /\ Running("extends")
    /\ Top.fm.Extends # EmptyPath
    /\ Recurse(extendsPath(Top), "extendsRet")
    /\ UNCHANGED EnvH

ExtendsSkip ==
    /\ Running("extends")
    /\ Top.fm.Extends = EmptyPath
    /\ stack' = SetTop([Top EXCEPT !.pc = "includes", !.idx = 1])
    /\ UNCHANGED <<visited, ret>>
    /\ UNCHANGED EnvH

\* a Propagate that reports the reference and drops the cause
PropagateWithoutCause(f, k, p, err) == IF f.fn = "Resolve" THEN <<Layer(k, p)>> ELSE err

\* the error a Resolve frame passes on is wrapped, GetDependencyChain's is not
Propagate(f, k, p, err) == IF f.fn = "Resolve" THEN Wrap(k, p, err) ELSE err

\* an AppendResolved that ends the text with a single newline
AppendResolvedOneNewline(result, text) ==
    IF text # <<>> THEN WriteString(WriteString(result, text), <<NL>>) ELSE result

\* Resolve: a non-empty text is written, followed by a blank line
AppendResolved(result, text) ==
    IF text # <<>> THEN WriteString(WriteString(result, text), <<NL, NL>>) ELSE result

\* GetDependencyChain: chain = append(extendsChain, chain...)
AppendExtendsChain(chain, extendsChain) == extendsChain \o chain

\* GetDependencyChain: chain = append(chain, includeChain...)
AppendIncludeChain(chain, includeChain) == chain \o includeChain

ExtendsFail ==
    /\ Running("extendsRet")
    /\ ret.err # NoError
    /\ Return(Failure(Propagate(Top, "extends", extendsPath(Top), ret.err)))
    /\ UNCHANGED EnvH

ExtendsDone ==
    /\ Running("extendsRet")
    /\ ret.err = NoError
    /\ stack' = SetTop([Top EXCEPT
            !.pc = "includes",
            !.idx = 1,
            !.result = IF Top.fn = "Resolve"
                       THEN AppendResolved(Top.result, ret.text) ELSE Top.result,
            !.chain = IF Top.fn = "GetDependencyChain"
                      THEN AppendExtendsChain(Top.chain, ret.chain) ELSE Top.chain])
    /\ ret' = NoResult
    /\ UNCHANGED visited
    /\ UNCHANGED EnvH

IncludeCall ==
    /\ Running("includes")
    /\ Top.idx <= Len(Top.fm.Includes)
    /\ Recurse(includeFullPath(Top), "includeRet")
    /\ UNCHANGED EnvH

\* an IncludeFail that skips the failed peer and goes on with the next
IncludeFailContinue ==
    /\ Running("includeRet")
    /\ ret.err # NoError
    /\ stack' = SetTop([Top EXCEPT !.pc = "includes", !.idx = Top.idx + 1])
    /\ ret' = NoResult
    /\ UNCHANGED visited
    /\ UNCHANGED EnvH

IncludeFail ==
    /\ Running("includeRet")
    /\ ret.err # NoError
    /\ Return(Failure(Propagate(Top, "include", includeFullPath(Top), ret.err)))
    /\ UNCHANGED EnvH

IncludeDone ==
    /\ Running("includeRet")
    /\ ret.err = NoError
    /\ stack' = SetTop([Top EXCEPT
            !.pc = "includes",
            !.idx = Top.idx + 1,
            !.result = IF Top.fn = "Resolve"
                       THEN AppendResolved(Top.result, ret.text) ELSE Top.result,
            !.chain = IF Top.fn = "GetDependencyChain"
                      THEN AppendIncludeChain(Top.chain, ret.chain) ELSE Top.chain])
    /\ ret' = NoResult
    /\ UNCHANGED visited
    /\ UNCHANGED EnvH

\* a FinalText that returns what was written as it is
FinalTextUntrimmed(f) ==
    IF f.content # <<>> THEN WriteString(f.result, f.content) ELSE f.result

\* Resolve: the file's own content is written last and the whole is trimmed
FinalText(f) ==
    TrimSpace(IF f.content # <<>> THEN WriteString(f.result, f.content) ELSE f.result)

Finish ==
    /\ Running("includes")
    /\ Top.idx > Len(Top.fm.Includes)
    /\ Return([text |-> IF Top.fn = "Resolve" THEN FinalText(Top) ELSE <<>>,
               chain |-> Top.chain,
               err |-> NoError])
    /\ UNCHANGED EnvH

Next ==
    \/ CallResolve
    \/ CallGetDependencyChain
    \/ CallValidateChain
    \/ Complete
    \/ EntryAbsError
    \/ EntryCircular
    \/ EntryMark
    \/ OpenError
    \/ ParseError
    \/ ParseOK
    \/ ExtendsCall
    \/ ExtendsSkip
    \/ ExtendsFail
    \/ ExtendsDone
    \/ IncludeCall
    \/ IncludeFail
    \/ IncludeDone
    \/ Finish

(***************************************************************************)
(* Initial states: a directory of files a, b, c, d.  Every file is         *)
(* missing, has a frontmatter block that is not YAML, or is well formed    *)
(* with an optional parent and a list of peers; at most MaxRefs references *)
(* are declared in all, at most MaxFaults files are missing or malformed,  *)
(* and a file no reference leads to is plain.                              *)
(***************************************************************************)
Names == {"a", "b", "c", "d"}

File(n) == Path(TRUE, <<n>>)

Ref(n) == Path(FALSE, <<n>>)

Refs == {Ref(n) : n \in Names}

\* the lines of a well-formed file
FileLines(ext, incs, body) ==
    (IF ext = EmptyPath /\ incs = <<>> THEN <<>>
     ELSE <<SepLine>>
          \o (IF ext = EmptyPath THEN <<>> ELSE <<ExtendsLine(ext)>>)
          \o (IF incs = <<>> THEN <<>> ELSE <<IncludesLine(incs)>>)
          \o <<SepLine>>)
    \o body

\* a file whose frontmatter block is not a YAML mapping
BadLines(body) == <<SepLine, TextLine(<<"x">>), SepLine>> \o body

Config(st, ext, incs) == [st |-> st, ext |-> ext, incs |-> incs]

Plain == Config("ok", EmptyPath, <<>>)

RefCount(c) == (IF c.ext = EmptyPath THEN 0 ELSE 1) + Len(c.incs)

IncludeLists == UNION {[1..m -> Refs] : m \in 0..MaxIncludes}

Configs(budget) ==
    {Config("missing", EmptyPath, <<>>), Config("bad", EmptyPath, <<>>)}
    \cup {c \in {Config("ok", e, i) : e \in {EmptyPath} \cup Refs, i \in IncludeLists} :
            RefCount(c) <= budget}

\* the names a file refers to, parent first, then the peers as declared
Mentions(c) ==
    (IF c.ext = EmptyPath THEN <<>> ELSE <<c.ext.segs[1]>>)
    \o [i \in DOMAIN c.incs |-> c.incs[i].segs[1]]

InSeq(x, sq) == \E i \in DOMAIN sq : sq[i] = x

RECURSIVE AddNew(_, _)
AddNew(order, names) ==
    IF names = <<>> THEN order
    ELSE AddNew(IF InSeq(Head(names), order) THEN order ELSE Append(order, Head(names)),
                Tail(names))

\* the files reachable from a, in the order in which they are first mentioned
RECURSIVE Discover(_, _, _)
Discover(cfg, order, i) ==
    IF i > Len(order) THEN order
    ELSE Discover(cfg, AddNew(order, Mentions(cfg[order[i]])), i + 1)

NameOrder == <<"a", "b", "c", "d">>

\* one file system per shape: files are named in the order of their first
\* mention, and a file nothing leads to is plain
Canonical(cfg) ==
    LET order == Discover(cfg, <<"a">>, 1)
    IN  /\ order = SubSeq(NameOrder, 1, Len(order))
        /\ \A n \in Names : ~InSeq(n, order) => cfg[n] = Plain

MkFs(cfg) ==
    [p \in {File(n) : n \in {m \in Names : cfg[m].st # "missing"}} |->
        LET n == p.segs[1]
        IN  IF cfg[n].st = "bad" THEN BadLines(<<TextLine(<<n>>)>>)
            ELSE FileLines(cfg[n].ext, cfg[n].incs, <<TextLine(<<n>>)>>)]

\* no command has been given
NoCommand == [cmd |-> "none"]

InitIdle ==
    /\ stack = <<>>
    /\ visited = {}
    /\ ret = NoResult
    /\ op = "none"
    /\ results = <<>>
    /\ parked = NoParked
    /\ cli = NoCommand
    /\ visits = <<>>

InitRun ==
    /\ start = Ref("a")
    /\ InitIdle

\* the configurations open to file n when the files before it mention `known`
Choices(n, known, budget) == IF InSeq(n, known) THEN Configs(budget) ELSE {Plain}

Init ==
    /\ \E ca \in Configs(MaxRefs) :
       LET ka == AddNew(<<"a">>, Mentions(ca)) IN
       \E cb \in Choices("b", ka, MaxRefs - RefCount(ca)) :
       LET kb == AddNew(ka, Mentions(cb)) IN
       \E cc \in Choices("c", kb, MaxRefs - RefCount(ca) - RefCount(cb)) :
       LET kc == AddNew(kb, Mentions(cc)) IN
       \E cd \in Choices("d", kc, MaxRefs - RefCount(ca) - RefCount(cb) - RefCount(cc)) :
          LET cfg == [n \in Names |-> CASE n = "a" -> ca [] n = "b" -> cb
                                        [] n = "c" -> cc [] OTHER -> cd]
          IN  /\ Cardinality({n \in Names : cfg[n].st # "ok"}) <= MaxFaults
              /\ Canonical(cfg)
              /\ fs = MkFs(cfg)
    /\ cwdOK \in BOOLEAN
    /\ cwdOK \/ \A p \in DOMAIN fs : fs[p] = FileLines(EmptyPath, <<>>, <<TextLine(<<p.segs[1]>>)>>)
    /\ InitRun

Spec == Init /\ [][Next]_vars

(***************************************************************************)
(* Initial states for the text of the result: a has up to MaxTextRefs      *)
(* references among a, b and c, and every file reached has one of the      *)
(* bodies below (empty, one line, a blank line before or after it, a line  *)
(* of white space), has a line too long to scan, is missing or is          *)
(* malformed.                                                              *)
(***************************************************************************)
MaxTextRefs == 2

TextNames == {"a", "b", "c"}

Blank == TextLine(<<>>)

Bodies(n) ==
    {<<>>, <<TextLine(<<n>>)>>, <<Blank, TextLine(<<n>>)>>, <<TextLine(<<n>>), Blank>>,
     <<TextLine(<<SP>>)>>}

Leaves(n) ==
    {[st |-> "ok", body |-> b] : b \in Bodies(n)}
    \cup {[st |-> "missing", body |-> <<>>], [st |-> "bad", body |-> <<>>],
          [st |-> "ok", body |-> <<LongLine>>]}

TextConfigs ==
    {c \in {Config("ok", e, i) :
                e \in {EmptyPath} \cup {Ref(n) : n \in TextNames},
                i \in UNION {[1..m -> {Ref(n) : n \in TextNames}] : m \in 0..MaxIncludes}} :
        RefCount(c) <= MaxTextRefs}

MkTextFs(ca, ba, lb, lc) ==
    [p \in {File(n) : n \in {"a"} \cup {m \in {"b"} : lb.st # "missing"}
                                  \cup {m \in {"c"} : lc.st # "missing"}} |->
        CASE p = File("a") -> FileLines(ca.ext, ca.incs, ba)
          [] p = File("b") -> IF lb.st = "bad" THEN BadLines(lb.body)
                              ELSE FileLines(EmptyPath, <<>>, lb.body)
          [] OTHER -> IF lc.st = "bad" THEN BadLines(lc.body)
                      ELSE FileLines(EmptyPath, <<>>, lc.body)]

PlainLeaf(n) == [st |-> "ok", body |-> <<TextLine(<<n>>)>>]

InitText ==
    /\ \E ca \in TextConfigs, ba \in Bodies("a"), lb \in Leaves("b"), lc \in Leaves("c") :
          LET order == AddNew(<<"a">>, Mentions(ca))
          IN  /\ order = SubSeq(NameOrder, 1, Len(order))
              /\ InSeq("b", order) \/ lb = PlainLeaf("b")
              /\ InSeq("c", order) \/ lc = PlainLeaf("c")
              /\ fs = MkTextFs(ca, ba, lb, lc)
    /\ cwdOK \in BOOLEAN
    /\ cwdOK \/ \A p \in DOMAIN fs : fs[p] = FileLines(EmptyPath, <<>>, <<TextLine(<<p.segs[1]>>)>>)
    /\ InitRun

SpecText == InitText /\ [][Next]_vars

(***************************************************************************)
(* The reference graph the files declare, read off the file system.        *)
(***************************************************************************)
StartAbs == Abs(start)

WellFormed(p) == Exists(p) /\ ParseFrontmatter(fs[p]).err = NoError

\* the absolute paths a file refers to: its parent, then its peers
DepSeq(p) ==
    IF ~WellFormed(p) THEN <<>>
    ELSE LET fm == ParseFrontmatter(fs[p]).fm
         IN  (IF fm.Extends = EmptyPath THEN <<>>
              ELSE <<Abs(resolvePath(fm.Extends, Dir(p)))>>)
             \o [i \in DOMAIN fm.Includes |-> Abs(resolvePath(fm.Includes[i], Dir(p)))]

DepSet(p) == {DepSeq(p)[i] : i \in DOMAIN DepSeq(p)}

RECURSIVE Closure(_)
Closure(ps) ==
    LET more == ps \cup UNION {DepSet(p) : p \in ps}
    IN  IF more = ps THEN ps ELSE Closure(more)

\* the files a resolution of p can come to
Reachable(p) == Closure({p})

\* p lies on a cycle of references
OnCycle(p) == p \in Closure(DepSet(p))

Cyclic == \E p \in Reachable(StartAbs) : OnCycle(p)

AllReadable == \A p \in Reachable(StartAbs) : WellFormed(p)

AbsWorks == ~AbsFails(start, cwdOK)

\* an acyclic graph of readable, well-formed files
Sound == AbsWorks /\ AllReadable /\ ~Cyclic

Body(p) == ParseFrontmatter(fs[p]).content

HasParent(p) == ParseFrontmatter(fs[p]).fm.Extends # EmptyPath

Peers(p) == ParseFrontmatter(fs[p]).fm.Includes

Succeeded(r) == r.err = NoError

ResultsOf(o) == {i \in DOMAIN results : results[i].op = o}

\* the text without its white space
Strip(text) == SelectSeq(text, LAMBDA ch : ch \notin WhiteSpace)

RECURSIVE Flatten(_)
Flatten(seqs) == IF seqs = <<>> THEN <<>> ELSE Head(seqs) \o Flatten(Tail(seqs))

\* the bodies in the order of the contract: the parent's, the peers' as
\* declared, the file's own
RECURSIVE Order(_)
Order(p) ==
    Flatten([i \in DOMAIN DepSeq(p) |-> Order(DepSeq(p)[i])]) \o Strip(Body(p))

\* a top-level call of o has come back and ret holds what it returned
Returned(o) == op = o /\ stack = <<>>

\* C1: on an acyclic graph of readable, well-formed files Resolve succeeds and
\* its text holds the bodies in the order parent, peers as declared, own body,
\* the parent's and the peers' parts being resolved the same way.
C1_Order ==
    Returned("Resolve") =>
        (Sound => Succeeded(ret) /\ Strip(ret.text) = Order(StartAbs))

\* a file with a parent and two peers, one of which has a parent of its own,
\* has been resolved
C1_Witness ==
    /\ Returned("Resolve")
    /\ Sound
    /\ Len(Strip(ret.text)) >= 5
    /\ HasParent(StartAbs)
    /\ Len(Peers(StartAbs)) = 2
    /\ Cardinality(DepSet(StartAbs)) = 3

(***************************************************************************)
(* What Resolve returns for p, as a function of the files: the non-empty   *)
(* texts of the parent and the peers, a blank line after each, then the    *)
(* body, trimmed.  Defined on acyclic graphs of well-formed files.         *)
(***************************************************************************)
RECURSIVE Resolved(_)
Resolved(p) ==
    LET parts == [i \in DOMAIN DepSeq(p) |-> Resolved(DepSeq(p)[i])]
    IN  TrimSpace(Flatten([i \in DOMAIN parts |->
                              IF parts[i] # <<>> THEN parts[i] \o <<NL, NL>> ELSE <<>>])
                  \o Body(p))

\* the segments of the text of p: the resolved parent, the resolved peers, the body
Segments(p) == [i \in DOMAIN DepSeq(p) |-> Resolved(DepSeq(p)[i])] \o <<Body(p)>>

BlankLine == <<NL, NL>>

\* no segment is empty and the body neither starts nor ends with white space
CleanSegments(p) ==
    /\ \A i \in DOMAIN Segments(p) : Segments(p)[i] # <<>>
    /\ Body(p) = TrimSpace(Body(p))

\* C2 as stated: whatever the bodies, the text of a file with a parent or
\* peers is its segments with exactly one blank line between neighbours and
\* nothing after the last.
C2_AnyBody ==
    (Returned("Resolve") /\ Succeeded(ret) /\ DepSeq(StartAbs) # <<>>) =>
        ret.text = Join(Segments(StartAbs), BlankLine)

\* C2 amended: when no segment is empty and the file's own body has no white
\* space at either end, the text is the segments with exactly one blank line
\* between neighbours and nothing after the last; the text a parent or peer
\* call hands back is the resolved text of that file.
C2_Separated ==
    /\ (Returned("Resolve") /\ Succeeded(ret) /\ DepSeq(StartAbs) # <<>>) =>
          (CleanSegments(StartAbs) => ret.text = Join(Segments(StartAbs), BlankLine))
    /\ (stack # <<>> /\ Top.fn = "Resolve" /\ Succeeded(ret)) =>
          /\ Top.pc = "extendsRet" => ret.text = Resolved(Abs(extendsPath(Top)))
          /\ Top.pc = "includeRet" => ret.text = Resolved(Abs(includeFullPath(Top)))

\* a file with a parent, a peer and a clean body has been resolved
C2_Witness ==
    /\ Returned("Resolve")
    /\ Succeeded(ret)
    /\ HasParent(StartAbs)
    /\ Peers(StartAbs) # <<>>
    /\ Cardinality(DepSet(StartAbs)) = 2
    /\ CleanSegments(StartAbs)

\* C3 (after a call): when every file is readable and well formed and a cycle
\* can be reached, Resolve and GetDependencyChain fail, the failure is a
\* circular dependency, and the path it names lies on a reachable cycle.
C3_Fails ==
    (stack = <<>> /\ op \in {"Resolve", "GetDependencyChain"}) =>
        ((AbsWorks /\ AllReadable /\ Cyclic) =>
            /\ ~Succeeded(ret)
            /\ Cause(ret.err).kind = "circular"
            /\ Cause(ret.err).path \in Reachable(StartAbs)
            /\ OnCycle(Cause(ret.err).path)
            /\ ret.text = <<>> /\ ret.chain = <<>>)

\* C3 (when the error arises): the path named is the absolute path of the call
\* being entered, and a call further up the stack is resolving it.
C3_Names ==
    (ret.err = NoError /\ ret'.err # NoError /\ ret'.err[1].kind = "circular") =>
        /\ ret'.err[1].path = Abs(Top.filePath)
        /\ \E k \in 1..(Len(stack) - 1) :
              stack[k].pc # "entry" /\ stack[k].absPath = ret'.err[1].path

\* C3: a reachable cycle makes both traversals fail with a circular-dependency
\* error that names the absolute path whose re-entry closed the cycle.
C3_Cycle == [](C3_Fails) /\ [][C3_Names]_vars

\* a cycle of three files has been run into by GetDependencyChain
C3_Witness ==
    /\ Returned("GetDependencyChain")
    /\ AbsWorks /\ AllReadable /\ Cyclic
    /\ Cause(ret.err).kind = "circular"
    /\ \E p, q, r \in Reachable(StartAbs) :
          /\ Cardinality({p, q, r}) = 3
          /\ DepSet(p) = {q} /\ DepSet(q) = {r} /\ DepSet(r) = {p}

Marked == {k \in DOMAIN stack : stack[k].pc # "entry"}

\* C4: visited holds exactly the absolute paths of the calls that have been
\* entered and have not returned, each of them once.
C4_Visited ==
    /\ visited = {stack[k].absPath : k \in Marked}
    /\ Cardinality(visited) = Cardinality(Marked)

\* three calls are active and a fourth has come and gone
C4_Witness ==
    /\ Len(stack) = 3
    /\ Cardinality(Marked) = 3
    /\ Top.pc = "includes"
    /\ Top.idx = 2

\* C5 (a return): whichever way a call returns, visited is again what the
\* call was handed.
C5_Restores == Len(stack') < Len(stack) => visited' = Top.onEntry

\* C5 (between calls): no path is left in the context
C5_Empty == stack = <<>> => visited = {}

\* C5 (the next call): a call returns what the same call returned before
C5_Unaffected ==
    (stack = <<>> /\ op # "none") =>
        \A i \in ResultsOf(op) : Outcome(op, ret) = results[i]

\* C5: every call leaves visited as it found it, on success and on every
\* failure; after a top-level call the context is empty and the next
\* resolution is not affected by the one before.
C5_Cleanup == [](C5_Empty /\ C5_Unaffected) /\ [][C5_Restores]_vars

\* a second call has returned after a first one failed two levels down
C5_Witness ==
    /\ stack = <<>>
    /\ op # "none"
    /\ Len(results) = 1
    /\ results[1].op = op
    /\ Len(results[1].err) >= 4
    /\ results[1].err[1].kind \in {"extends", "include"}

Count(ch, text) == Len(SelectSeq(text, LAMBDA x : x = ch))

\* the number of ways the references lead from one file to another
RECURSIVE PathCount(_, _)
PathCount(from, to) ==
    LET sub == [i \in DOMAIN DepSeq(from) |-> PathCount(DepSeq(from)[i], to)]
        Sum[i \in 0..Len(sub)] == IF i = 0 THEN 0 ELSE Sum[i - 1] + sub[i]
    IN  (IF from = to THEN 1 ELSE 0) + Sum[Len(sub)]

\* a file that two other files refer to
Shared(p) ==
    \E q, r \in Reachable(StartAbs) :
        q # r /\ q # p /\ r # p /\ p \in DepSet(q) /\ p \in DepSet(r)

\* C6: on an acyclic graph Resolve succeeds however often a file is referred
\* to, and the body of every file appears once for every way the references
\* lead to it.
C6_Diamond ==
    Returned("Resolve") =>
        (Sound =>
            /\ Succeeded(ret)
            /\ \A p \in Reachable(StartAbs) :
                  \A j \in DOMAIN Strip(Body(p)) :
                      Count(Strip(Body(p))[j], ret.text) = PathCount(StartAbs, p))

\* a diamond has been resolved: two files refer to a third
C6_Witness ==
    /\ Returned("Resolve")
    /\ Sound
    /\ \E p \in Reachable(StartAbs) :
          /\ Shared(p)
          /\ PathCount(StartAbs, p) = 2
          /\ Count(Strip(Body(p))[1], ret.text) = 2

MissingReachable == \E p \in Reachable(StartAbs) : ~Exists(p)

\* every file that exists is well formed and no cycle can be reached
OnlyMissing == ~Cyclic /\ \A p \in Reachable(StartAbs) : Exists(p) => WellFormed(p)

\* C7 as stated: a reference to a file that does not exist (nothing else
\* being wrong with the chain) makes Resolve fail, and what the caller gets
\* is the error of the failed open itself, as the frame of the open made it.
C7_Unchanged ==
    (Returned("Resolve") /\ AbsWorks /\ MissingReachable /\ OnlyMissing) =>
        /\ ~Succeeded(ret)
        /\ \E p \in Reachable(StartAbs) : ~Exists(p) /\ ret.err = ErrOpen(p)

\* the path a layer of the error hangs on: the start, or the reference before
Referrer(err, j) == IF j = 1 THEN StartAbs ELSE Abs(err[j - 1].path)

\* C7 amended: in an acyclic chain of well-formed files with a reference to a
\* file that does not exist, Resolve fails; the error of the failed open,
\* naming the missing path, is the innermost part of what the caller gets,
\* and every frame in between has wrapped it once, naming the reference it
\* was resolving.
C7_Wrapped ==
    (Returned("Resolve") /\ AbsWorks /\ MissingReachable) =>
        /\ ~Succeeded(ret)
        /\ ret.text = <<>>
        /\ OnlyMissing =>
              \E k \in DOMAIN ret.err :
                  /\ SubSeq(ret.err, k, Len(ret.err)) = ErrOpen(Referrer(ret.err, k))
                  /\ ~Exists(Referrer(ret.err, k))
                  /\ \A j \in 1..(k - 1) :
                        /\ ret.err[j].kind \in {"extends", "include"}
                        /\ Abs(ret.err[j].path) \in DepSet(Referrer(ret.err, j))

\* a missing file two references away has been run into
C7_Witness ==
    /\ Returned("Resolve")
    /\ AbsWorks /\ MissingReachable /\ OnlyMissing
    /\ Len(ret.err) = 4
    /\ ret.err[3].kind = "open"

InFlight == stack # <<>> /\ ret.err # NoError

\* C8 (a state): while an error is on its way up, the running call is one that
\* waits for the failed call: none is about to open a file or to call
C8_Waiting == InFlight => Top.pc \in {"extendsRet", "includeRet"}

\* C8 (a step): the call that gets the error returns it at once
C8_Aborts == InFlight => (stack' = Pop /\ ret'.err # NoError /\ ret'.text = <<>>)

\* C8 (the result): a failed Resolve returns no text
C8_NoText == (Returned("Resolve") /\ ~Succeeded(ret)) => ret.text = <<>>

\* C8: after the first failure no further reference is resolved and no file
\* is opened, and Resolve returns the error with empty text.
C8_FailFast == [](C8_Waiting /\ C8_NoText) /\ [][C8_Aborts]_vars

\* the first of two peers has failed, the second is never visited
C8_Witness ==
    /\ InFlight
    /\ Top.fn = "Resolve"
    /\ Top.pc = "includeRet"
    /\ Top.idx < Len(Top.fm.Includes)

\* the paths in the order of the contract: the parent's chain, the peers'
\* chains as declared, the file itself
RECURSIVE ChainBeforeSelf(_)
ChainBeforeSelf(p) ==
    Flatten([i \in DOMAIN DepSeq(p) |-> ChainBeforeSelf(DepSeq(p)[i])]) \o <<p>>

\* C9: in the chain GetDependencyChain returns, the chain of the parent and
\* the chains of the peers come before the file's own path.
C9_PeersBeforeSelf ==
    (Returned("GetDependencyChain") /\ Succeeded(ret)) =>
        ret.chain = ChainBeforeSelf(StartAbs)

\* C10: ValidateChain fails exactly when Resolve fails, with the same error.
C10_SameError ==
    /\ Returned("ValidateChain") => \A i \in ResultsOf("Resolve") : ret.err = results[i].err
    /\ Returned("Resolve") => \A i \in ResultsOf("ValidateChain") : ret.err = results[i].err

\* ValidateChain has failed on a chain Resolve had failed on
C10_Witness ==
    /\ Returned("ValidateChain")
    /\ ResultsOf("Resolve") # {}
    /\ ~Succeeded(ret)
    /\ Len(ret.err) >= 3

(***************************************************************************)
(* Initial states for the parser: a is any sequence of at most MaxLines    *)
(* lines out of ParseLines (the separator, bare and with white space       *)
(* around it, text, a blank line, an `extends` entry, an `includes` entry, *)
(* a key the Frontmatter struct does not know); b, the file a may refer    *)
(* to, is plain, is missing or refers back to a.  Resolve is called on a.  *)
(***************************************************************************)
MaxLines == 4

SepSpaced == TextLine(<<SP, Dash, Dash, Dash, SP>>)

ParseLines ==
    {SepLine, SepSpaced, TextLine(<<"x">>), Blank, ExtendsLine(Ref("b")),
     IncludesLine(<<Ref("b")>>), UnknownKeyLine}

LineSeqs == UNION {[1..m -> ParseLines] : m \in 0..MaxLines}

RefersToB(ls) == \E i \in DOMAIN ls : ls[i].y.k \in {"extends", "includes"}

PeerFiles ==
    {[st |-> "plain", lines |-> <<TextLine(<<"b">>)>>],
     [st |-> "missing", lines |-> <<>>],
     [st |-> "back", lines |-> FileLines(Ref("a"), <<>>, <<TextLine(<<"b">>)>>)]}

MkParseFs(ls, b) ==
    [p \in {File("a")} \cup {File(n) : n \in {m \in {"b"} : b.st # "missing"}} |->
        IF p = File("a") THEN ls ELSE b.lines]

InitParse ==
    /\ \E ls \in LineSeqs, b \in PeerFiles :
          /\ b.st = "plain" \/ RefersToB(ls)
          /\ fs = MkParseFs(ls, b)
    /\ cwdOK \in BOOLEAN
    /\ cwdOK \/ fs[File("a")] = <<>>
    /\ InitRun

NextParse ==
    \/ CallResolve
    \/ Complete
    \/ EntryAbsError
    \/ EntryCircular
    \/ EntryMark
    \/ OpenError
    \/ ParseError
    \/ ParseOK
    \/ ExtendsCall
    \/ ExtendsSkip
    \/ ExtendsFail
    \/ ExtendsDone
    \/ IncludeCall
    \/ IncludeFail
    \/ IncludeDone
    \/ Finish

SpecParse == InitParse /\ [][NextParse]_vars

\* the file has no header: it is empty or its first line is not the delimiter
NoHeader(ls) == ls = <<>> \/ TrimSpace(ls[1].txt) # <<Dash, Dash, Dash>>

\* the file has an empty header: the delimiter, and the delimiter again
EmptyHeader(ls) ==
    /\ Len(ls) >= 2
    /\ TrimSpace(ls[1].txt) = <<Dash, Dash, Dash>>
    /\ TrimSpace(ls[2].txt) = <<Dash, Dash, Dash>>

\* the lines as text, a newline between them
TextOf(ls) == Join(LineTexts(ls), <<NL>>)

\* C11: Resolve of a file without a header returns the trimmed text of its
\* lines, and Resolve of a file with an empty header returns the trimmed text
\* of the lines after the header: what the same lines give without a header.
C11_TrimmedBody ==
    (Returned("Resolve") /\ AbsWorks) =>
        LET ls == fs[StartAbs]
        IN  /\ NoHeader(ls) => (Succeeded(ret) /\ ret.text = TrimSpace(TextOf(ls)))
            /\ EmptyHeader(ls) =>
                  /\ Succeeded(ret)
                  /\ ret.text = TrimSpace(TextOf(SubSeq(ls, 3, Len(ls))))

\* a file with an empty header and white space around its body has been resolved
C11_Witness ==
    /\ Returned("Resolve")
    /\ EmptyHeader(fs[StartAbs])
    /\ Len(fs[StartAbs]) = 4
    /\ fs[StartAbs][3] = Blank
    /\ ret.text = <<"x">>

\* a file without a header, white space around its text, has been resolved
C11_WitnessNoHeader ==
    /\ Returned("Resolve")
    /\ NoHeader(fs[StartAbs])
    /\ Len(fs[StartAbs]) = 3
    /\ fs[StartAbs][1] = Blank
    /\ ret.text = <<"x">>

\* C12: a top-level Resolve returns what every earlier top-level Resolve of the
\* same path returned, text and error alike, whether it was given a new
\* context or the one an earlier call had used; it leaves the context empty,
\* and on an acyclic graph of well-formed files the text is the one the files
\* determine.
C12_Deterministic ==
    Returned("Resolve") =>
        /\ \A i \in ResultsOf("Resolve") :
              ret.text = results[i].text /\ ret.err = results[i].err
        /\ visited = {}
        /\ Sound => ret.text = Resolved(StartAbs)

\* a second Resolve of a file with three files behind it has returned
C12_Witness ==
    /\ Returned("Resolve")
    /\ ResultsOf("Resolve") # {}
    /\ Succeeded(ret)
    /\ Cardinality(Reachable(StartAbs)) = 4
    /\ Len(Strip(ret.text)) >= 4

\* a second Resolve has failed as the first one did
C12_WitnessError ==
    /\ Returned("Resolve")
    /\ ResultsOf("Resolve") # {}
    /\ ~Succeeded(ret)
    /\ Len(ret.err) >= 3

(***************************************************************************)
(* Initial states for paths.  The working directory is /, the file Resolve *)
(* is called on is /s/a, and /s/t/b is the file it may refer to.  A file   *)
(* named c lies in each of /, /s and /s/t (the one in / is malformed), and *)
(* no directory holds a file named d.  A reference is one of the spellings *)
(* below, listed with the file it denotes from the directory of the file   *)
(* that declares it; a and b declare at most MaxPathRefs references.       *)
(***************************************************************************)
MaxPathRefs == 2

Rel(segs) == Path(FALSE, segs)

Rooted(segs) == Path(TRUE, segs)

FileA == Rooted(<<"s", "a">>)

FileB == Rooted(<<"s", "t", "b">>)

Spelt(ref, to) == [ref |-> ref, to |-> to]

\* the spellings of the path Resolve is called with, from the working directory
StartSpellings ==
    {Spelt(Rel(<<"s", "a">>), FileA),
     Spelt(Rel(<<".", "s", "t", "..", "a">>), FileA),
     Spelt(Rooted(<<"s", "a">>), FileA),
     Spelt(Rooted(<<"s", ".", "a">>), FileA)}

\* references declared in /s/a
SpellingsFromS ==
    {Spelt(Rel(<<"t", "b">>), FileB),
     Spelt(Rel(<<".", "t", "b">>), FileB),
     Spelt(Rooted(<<"s", "t", "b">>), FileB),
     Spelt(Rel(<<"a">>), FileA),
     Spelt(Rel(<<"..", "s", "a">>), FileA),
     Spelt(Rel(<<"c">>), Rooted(<<"s", "c">>)),
     Spelt(Rel(<<"..", "c">>), Rooted(<<"c">>)),
     Spelt(Rel(<<"d">>), Rooted(<<"s", "d">>))}

\* references declared in /s/t/b
SpellingsFromT ==
    {Spelt(Rel(<<"..", "a">>), FileA),
     Spelt(Rooted(<<"s", "a">>), FileA),
     Spelt(Rooted(<<"s", "t", "..", "a">>), FileA),
     Spelt(Rel(<<"b">>), FileB),
     Spelt(Rel(<<"c">>), Rooted(<<"s", "t", "c">>)),
     Spelt(Rel(<<"..", "c">>), Rooted(<<"s", "c">>)),
     Spelt(Rel(<<"..", "..", "c">>), Rooted(<<"c">>)),
     Spelt(Rel(<<"d">>), Rooted(<<"s", "t", "d">>))}

SpellingsOf(file) == IF file = FileA THEN SpellingsFromS ELSE SpellingsFromT

RefsOf(sp) == {e.ref : e \in sp}

PathConfigs(sp, budget) ==
    {c \in {Config("ok", e, i) :
                e \in {EmptyPath} \cup RefsOf(sp),
                i \in UNION {[1..m -> RefsOf(sp)] : m \in 0..MaxIncludes}} :
        RefCount(c) <= budget}

\* the file a reference of `file` denotes
Denotes(file, ref) == (CHOOSE e \in SpellingsOf(file) : e.ref = ref).to

ConfigRefs(c) == (IF c.ext = EmptyPath THEN {} ELSE {c.ext}) \cup {c.incs[i] : i \in DOMAIN c.incs}

MkPathFs(ca, cb) ==
    [p \in {FileA, FileB, Rooted(<<"c">>), Rooted(<<"s", "c">>), Rooted(<<"s", "t", "c">>)} |->
        CASE p = FileA -> FileLines(ca.ext, ca.incs, <<TextLine(<<"a">>)>>)
          [] p = FileB -> FileLines(cb.ext, cb.incs, <<TextLine(<<"b">>)>>)
          [] p = Rooted(<<"c">>) -> BadLines(<<TextLine(<<"r">>)>>)
          [] p = Rooted(<<"s", "c">>) -> FileLines(EmptyPath, <<>>, <<TextLine(<<"s">>)>>)
          [] OTHER -> FileLines(EmptyPath, <<>>, <<TextLine(<<"t">>)>>)]

InitPaths ==
    /\ \E ca \in PathConfigs(SpellingsFromS, MaxPathRefs) :
       \E cb \in PathConfigs(SpellingsFromT, MaxPathRefs - RefCount(ca)) :
          /\ cb = Plain \/ \E r \in ConfigRefs(ca) : Denotes(FileA, r) = FileB
          /\ fs = MkPathFs(ca, cb)
    /\ \E sp \in StartSpellings : start = sp.ref
    /\ cwdOK \in BOOLEAN
    /\ cwdOK \/ (fs = MkPathFs(Plain, Plain) /\ start = Rel(<<"s", "a">>))
    /\ InitIdle

SpecPaths == InitPaths /\ [][Next]_vars

\* the file the path Resolve was called with denotes
StartFile == (CHOOSE e \in StartSpellings : e.ref = start).to

\* the reference a call that waits for another is resolving
RefInProgress(f) == IF f.pc = "extendsRet" THEN f.fm.Extends ELSE f.fm.Includes[f.idx]

\* the file call k is about, told from the spellings
RECURSIVE FileOfCall(_)
FileOfCall(k) ==
    IF k = 1 THEN StartFile
    ELSE Denotes(FileOfCall(k - 1), RefInProgress(stack[k - 1]))

\* the files a file refers to, told from the spellings: parent, then peers
TrueDeps(p) ==
    IF p \notin {FileA, FileB} \/ ~WellFormed(p) THEN <<>>
    ELSE LET fm == ParseFrontmatter(fs[p]).fm
         IN  (IF fm.Extends = EmptyPath THEN <<>> ELSE <<Denotes(p, fm.Extends)>>)
             \o [i \in DOMAIN fm.Includes |-> Denotes(p, fm.Includes[i])]

TrueDepSet(p) == {TrueDeps(p)[i] : i \in DOMAIN TrueDeps(p)}

RECURSIVE TrueClosure(_)
TrueClosure(ps) ==
    LET more == ps \cup UNION {TrueDepSet(p) : p \in ps}
    IN  IF more = ps THEN ps ELSE TrueClosure(more)

TrueOnCycle(p) == p \in TrueClosure(TrueDepSet(p))

TrueCyclic == \E p \in TrueClosure({StartFile}) : TrueOnCycle(p)

TrueReadable == \A p \in TrueClosure({StartFile}) : WellFormed(p)

\* C13 (the result): when the files are well formed and the references, in
\* whatever spelling, lead back to a file, the call fails with a circular
\* dependency that names the normalized absolute path of a file on the cycle.
C13_Detected ==
    (stack = <<>> /\ op # "none" /\ AbsWorks /\ TrueReadable /\ TrueCyclic) =>
        /\ ~Succeeded(ret)
        /\ Cause(ret.err).kind = "circular"
        /\ Cause(ret.err).path \in TrueClosure({StartFile})
        /\ TrueOnCycle(Cause(ret.err).path)

\* C13 (the recursion): no file is entered while a call for it is active,
\* however it is spelt
C13_NoReentry ==
    \A j, k \in Marked : j < k => FileOfCall(j) # FileOfCall(k)

\* C13: a cycle through differently spelt references is found as a circular
\* dependency and the file is not resolved again.
C13_Spellings == C13_Detected /\ C13_NoReentry

\* a cycle has been found that closes through a rooted path with a `..`
\* segment, the file having been reached by relative paths
C13_Witness ==
    /\ stack = <<>>
    /\ op = "Resolve"
    /\ start = Rel(<<".", "s", "t", "..", "a">>)
    /\ TrueReadable /\ TrueCyclic
    /\ Cause(ret.err).kind = "circular"
    /\ Cause(ret.err).path = FileA
    /\ Len(ret.err) = 3
    /\ ret.err[2].path = Rooted(<<"s", "t", "..", "a">>)

\* the bodies in the order of the contract, the references told from the
\* spellings
RECURSIVE TrueOrder(_)
TrueOrder(p) ==
    Flatten([i \in DOMAIN TrueDeps(p) |-> TrueOrder(TrueDeps(p)[i])]) \o Strip(Body(p))

\* C19 (every call): the file a call opens is the one its reference denotes
\* from the directory of the declaring file; a rooted reference is passed on
\* as it is written
C19_EveryDepth ==
    \A k \in DOMAIN stack :
        /\ k \in Marked => stack[k].absPath = FileOfCall(k)
        /\ (k > 1 /\ IsAbs(RefInProgress(stack[k - 1]))) =>
              stack[k].filePath = RefInProgress(stack[k - 1])

\* C19 (the result): the text is made of the bodies of the files the
\* references denote
C19_Bodies ==
    (Returned("Resolve") /\ AbsWorks /\ TrueReadable /\ ~TrueCyclic) =>
        (Succeeded(ret) /\ Strip(ret.text) = TrueOrder(StartFile))

\* C19: relative references are resolved against the directory of the file
\* that declares them, at every depth; rooted ones are used as given.
C19_DeclaringDir == C19_EveryDepth /\ C19_Bodies

\* /s/a refers to t/b and /s/t/b to c: the c of /s/t is resolved, not the
\* one of /s nor the one of the working directory
C19_Witness ==
    /\ Returned("Resolve")
    /\ Succeeded(ret)
    /\ TrueDeps(FileA) = <<FileB>>
    /\ ParseFrontmatter(fs[FileB]).fm.Extends = Rel(<<"c">>)
    /\ Strip(ret.text) = <<"t", "b", "a">>

\* the index of the line that closes the header of ls: the first delimiter
\* after line 1, or one past the last line when there is none
RECURSIVE ClosingFrom(_, _)
ClosingFrom(ls, i) ==
    IF i > Len(ls) THEN i
    ELSE IF TrimSpace(ls[i].txt) = <<Dash, Dash, Dash>> THEN i
    ELSE ClosingFrom(ls, i + 1)

Closing(ls) == ClosingFrom(ls, 2)

\* the file has a metadata block with a line that is not YAML
Malformed(p) ==
    /\ Exists(p)
    /\ ~NoHeader(fs[p])
    /\ \E i \in 2..(Closing(fs[p]) - 1) : fs[p][i].y.k = "bad"

MalformedReachable == \E p \in Reachable(StartAbs) : Malformed(p)

NoneMissing == \A p \in Reachable(StartAbs) : Exists(p)

\* what ParseFrontmatter reports when yaml.Unmarshal fails
ParseDiagnostic == <<Layer("parsefm", EmptyPath), Layer("yaml", EmptyPath)>>

C14_WitnessResolve ==
    /\ Returned("Resolve")
    /\ MalformedReachable /\ ~Cyclic /\ NoneMissing
    /\ Len(ret.err) = 5
    /\ ret.err[3].kind = "parsefile"

\* the file has a header: its first line is the delimiter
HasHeader(ls) == ~NoHeader(ls)

\* the lines strictly between the first line and the line that closes the header
MetadataLines(ls) == IF HasHeader(ls) THEN SubSeq(ls, 2, Closing(ls) - 1) ELSE <<>>

\* the lines after the line that closes the header; all lines without a header
BodyLines(ls) == IF HasHeader(ls) THEN SubSeq(ls, Closing(ls) + 1, Len(ls)) ELSE ls

\* a call has read its file and holds what ParseFrontmatter returned
Parsed(f) == f.fn = "Resolve" /\ f.pc \in {"extends", "extendsRet", "includes", "includeRet"}

\* C18 (the scanner): the lines of every file are divided into the metadata,
\* the lines strictly between a delimiter on line 1 and the next delimiter,
\* and the body, every line after that one or, without a delimiter on line 1,
\* every line
C18_Scan ==
    \A p \in DOMAIN fs :
        ScanLines(fs[p], 1, FALSE, <<>>, <<>>) =
            [frontmatterLines |-> MetadataLines(fs[p]), contentLines |-> BodyLines(fs[p])]

\* C18 (the call): what a call of Resolve holds after parsing is the body as
\* text and the header made of the metadata, the empty one without metadata
C18_Held ==
    \A k \in DOMAIN stack :
        Parsed(stack[k]) =>
            LET ls == fs[stack[k].absPath]
            IN  /\ stack[k].content = TextOf(BodyLines(ls))
                /\ stack[k].fm = IF MetadataLines(ls) = <<>> THEN ZeroFrontmatter
                                  ELSE YamlUnmarshal(MetadataLines(ls))
                /\ ~YamlFails(MetadataLines(ls))

\* C18: ParseFrontmatter takes a header to exist exactly when the first line
\* is the delimiter, the metadata to be the lines up to the next delimiter and
\* the body to be all lines after it, later delimiters included.
C18_Partition == C18_Scan /\ C18_Held

\* a file with a parent as metadata and a delimiter as body has been parsed
C18_Witness ==
    /\ stack # <<>>
    /\ Len(stack) = 1
    /\ Parsed(Top)
    /\ Top.fm.Extends = Ref("b")
    /\ Top.content = <<Dash, Dash, Dash>>
    /\ Len(fs[Top.absPath]) = 4

\* a file without a header, a delimiter on its second line, has been parsed
C18_WitnessNoHeader ==
    /\ stack # <<>>
    /\ Len(stack) = 1
    /\ Parsed(Top)
    /\ Top.fm = ZeroFrontmatter
    /\ Top.content = <<"x", NL, Dash, Dash, Dash, NL, "E">>

(***************************************************************************)
(* Two goroutines.  Each of two callers calls Resolve(start, nil) in a     *)
(* goroutine of its own.  The call of the goroutine that is running is in  *)
(* stack, visited and ret, as before; the call of the other one is kept in *)
(* parked, and Switch lets the scheduler change between them after any     *)
(* step.  The files are a and b, with at most MaxConcRefs references, and  *)
(* c and d, which declare none.                                            *)
(***************************************************************************)
MaxConcRefs == 2

\* a context with the entries of another call's context in it
SharedContext(mine, theirs) == mine \cup theirs

\* the map a call works on is the one it made when it was given nil
OwnContext(mine, theirs) == mine

Goroutine(o, st, vis, r, vs) ==
    [op |-> o, stack |-> st, visited |-> vis, ret |-> r, visits |-> vs]

GoResolve ==
    /\ CanCall
    /\ op' = "go Resolve"
    /\ visited' = {}
    /\ stack' = <<Frame("Resolve", start, {})>>
    /\ ret' = NoResult
    /\ visits' = <<>>
    /\ parked' = <<Goroutine("go Resolve", <<Frame("Resolve", start, {})>>, {}, NoResult, <<>>)>>
    /\ UNCHANGED <<fs, cwdOK, start, results, cli>>

\* the running goroutine is preempted, or has returned, and the other one runs
Switch ==
    /\ parked # NoParked
    /\ op' = parked[1].op
    /\ stack' = parked[1].stack
    /\ ret' = parked[1].ret
    /\ visited' = OwnContext(parked[1].visited, visited)
    /\ visits' = parked[1].visits
    /\ parked' = IF op = "none" THEN NoParked
                 ELSE <<Goroutine(op, stack, visited, ret, visits)>>
    /\ UNCHANGED <<fs, cwdOK, start, results, cli>>

LeafConfigs == {Plain, Config("missing", EmptyPath, <<>>), Config("bad", EmptyPath, <<>>)}

InitConc ==
    /\ \E ca \in Configs(MaxConcRefs) :
       LET ka == AddNew(<<"a">>, Mentions(ca)) IN
       \E cb \in Choices("b", ka, MaxConcRefs - RefCount(ca)) :
       LET kb == AddNew(ka, Mentions(cb)) IN
       \E cc \in Choices("c", kb, 0) \cap LeafConfigs :
          LET cfg == [n \in Names |-> CASE n = "a" -> ca [] n = "b" -> cb
                                        [] n = "c" -> cc [] OTHER -> Plain]
          IN  /\ Cardinality({n \in Names : cfg[n].st # "ok"}) <= MaxFaults
              /\ Canonical(cfg)
              /\ fs = MkFs(cfg)
    /\ cwdOK \in BOOLEAN
    /\ cwdOK \/ \A p \in DOMAIN fs : fs[p] = FileLines(EmptyPath, <<>>, <<TextLine(<<p.segs[1]>>)>>)
    /\ InitRun

NextConc ==
    \/ CallResolve
    \/ GoResolve
    \/ Switch
    \/ Complete
    \/ EntryAbsError
    \/ EntryCircular
    \/ EntryMark
    \/ OpenError
    \/ ParseError
    \/ ParseOK
    \/ ExtendsCall
    \/ ExtendsSkip
    \/ ExtendsFail
    \/ ExtendsDone
    \/ IncludeCall
    \/ IncludeFail
    \/ IncludeDone
    \/ Finish

SpecConc == InitConc /\ [][NextConc]_vars

\* a call made in a goroutine has come back
ReturnedGo == op = "go Resolve" /\ stack = <<>>

\* C15: a Resolve that ran in a goroutine, its steps interleaved with those
\* of another, returns what a Resolve that ran alone returned and what the
\* other goroutine returned; on an acyclic graph of well-formed files that is
\* the text the files determine, and without a cycle in the files it never
\* is a circular dependency.
C15_AsAlone ==
    ReturnedGo =>
        /\ \A i \in ResultsOf("Resolve") \cup ResultsOf("go Resolve") :
              ret.text = results[i].text /\ ret.err = results[i].err
        /\ Sound => (Succeeded(ret) /\ ret.text = Resolved(StartAbs))
        /\ (~Succeeded(ret) /\ ~Cyclic) => Cause(ret.err).kind # "circular"

\* after a Resolve that ran alone, a goroutine has come back with the text
\* while the other goroutine is inside two of the same files
C15_Witness ==
    /\ ReturnedGo
    /\ ResultsOf("Resolve") # {}
    /\ Succeeded(ret)
    /\ Len(Strip(ret.text)) >= 3
    /\ parked # NoParked
    /\ Cardinality(parked[1].visited) >= 2

(***************************************************************************)
(* cmd/fusectx: clean and clean-all.  A command is one step: it reads its  *)
(* arguments and flags, looks at the files and removes what it removes.    *)
(* cli keeps the arguments of the last command, the files that were there  *)
(* before it and the files os.Remove refused to remove (at most MaxFaults  *)
(* per command).  File names are strings, so that the suffix of a name can *)
(* be tested and replaced.                                                 *)
(***************************************************************************)
CtxSuffix == ".ctx"

MdSuffix == ".md"

\* strings.HasSuffix
HasSuffix(str, suffix) ==
    /\ Len(str) >= Len(suffix)
    /\ SubSeq(str, Len(str) - Len(suffix) + 1, Len(str)) = suffix

\* strings.TrimSuffix
TrimSuffix(str, suffix) ==
    IF HasSuffix(str, suffix) THEN SubSeq(str, 1, Len(str) - Len(suffix)) ELSE str

\* the last segment of a path: os.FileInfo.Name()
BaseName(p) == p.segs[Len(p.segs)]

WithName(p, name) == Path(p.abs, SubSeq(p.segs, 1, Len(p.segs) - 1) \o <<name>>)

\* strings.TrimSuffix(file, from) + to, on a path with a file name
ReplaceSuffix(p, from, to) == WithName(p, TrimSuffix(BaseName(p), from) \o to)

\* the path lies in the directory or in one below it
Under(dir, p) ==
    /\ Len(p.segs) > Len(dir.segs)
    /\ SubSeq(p.segs, 1, Len(dir.segs)) = dir.segs

\* filepath.Walk(dir) keeping the files whose name ends in .ctx
findCtxFiles(dir) ==
    {f \in DOMAIN fs : Under(Abs(dir), f) /\ HasSuffix(BaseName(f), CtxSuffix)}

mdFile(file) == ReplaceSuffix(file, CtxSuffix, MdSuffix)

\* a clean-all that skips nothing
SkippedNever(force, file) == FALSE

\* clean-all passes over a file when --force is not given and os.Stat finds
\* no .md file for it
Skipped(force, file) == ~force /\ ~Exists(Abs(mdFile(file)))

\* a removal that takes no notice of --dry-run
RemovedAnyway(dryRun, files) == files

\* the files os.Remove is called on
Removed(dryRun, files) == IF dryRun THEN {} ELSE files

\* the file system without the files of `gone`
Without(gone) == [f \in DOMAIN fs \ gone |-> fs[f]]

Command(cmd, arg, output, force, dryRun, failed) ==
    [cmd |-> cmd, arg |-> arg, output |-> output, force |-> force, dryRun |-> dryRun,
     failed |-> failed, before |-> DOMAIN fs]

Idle == op = "none" /\ stack = <<>> /\ parked = NoParked

CleanDirs == {Rel(<<".">>), Rel(<<"p">>), Rel(<<"p", "q">>), Rooted(<<"p">>)}

cleanAllCmd ==
    /\ Idle
    /\ \E targetDir \in CleanDirs, force \in BOOLEAN, dryRun \in BOOLEAN :
          LET ctxFiles == findCtxFiles(targetDir)
              chosen == {file \in ctxFiles : ~Skipped(force, file)}
          IN  \E failed \in SUBSET Removed(dryRun, chosen) :
                  /\ Cardinality(failed) <= MaxFaults
                  /\ fs' = Without(Removed(dryRun, chosen) \ failed)
                  /\ cli' = Command("clean-all", targetDir, EmptyPath, force, dryRun, failed)
    /\ UNCHANGED <<cwdOK, start, stack, visited, ret, op, results, parked, visits>>

CleanSources ==
    {Rel(<<"p", "x.md">>), Rel(<<"p", "y.md">>), Rel(<<"p", "x">>), Rel(<<"p", "x.ctx">>)}

CleanOutputs == {EmptyPath, Rel(<<"w.ctx">>), Rel(<<"p", "x.md">>)}

cleanCmd ==
    /\ Idle
    /\ \E sourceFile \in CleanSources, output \in CleanOutputs, dryRun \in BOOLEAN :
          LET known == output # EmptyPath \/ HasSuffix(BaseName(sourceFile), MdSuffix)
              targetFile == IF output # EmptyPath THEN output
                            ELSE ReplaceSuffix(sourceFile, MdSuffix, CtxSuffix)
              found == IF known /\ Exists(Abs(targetFile)) THEN {Abs(targetFile)} ELSE {}
          IN  \E failed \in SUBSET Removed(dryRun, found) :
                  /\ fs' = Without(Removed(dryRun, found) \ failed)
                  /\ cli' = Command("clean", sourceFile, output, FALSE, dryRun, failed)
    /\ UNCHANGED <<cwdOK, start, stack, visited, ret, op, results, parked, visits>>

\* the files there may be: a .ctx with its .md, a .ctx whose name has its
\* .md in another directory only, a pair one directory down, and a .ctx
\* outside the directory p
CliFiles ==
    {Rooted(<<"p", "x.md">>), Rooted(<<"p", "x.ctx">>),
     Rooted(<<"p", "y.ctx">>), Rooted(<<"p", "q", "y.md">>),
     Rooted(<<"p", "q", "z.md">>), Rooted(<<"p", "q", "z.ctx">>),
     Rooted(<<"w.ctx">>)}

InitClean ==
    /\ \E present \in SUBSET CliFiles : fs = [f \in present |-> <<>>]
    /\ cwdOK = TRUE
    /\ InitRun

NextClean ==
    \/ cleanCmd
    \/ cleanAllCmd

SpecClean == InitClean /\ [][NextClean]_vars

\* the .md file that belongs to a .ctx file: same directory, same name
Counterpart(f) ==
    CASE f = Rooted(<<"p", "x.ctx">>) -> Rooted(<<"p", "x.md">>)
      [] f = Rooted(<<"p", "y.ctx">>) -> Rooted(<<"p", "y.md">>)
      [] f = Rooted(<<"p", "q", "z.ctx">>) -> Rooted(<<"p", "q", "z.md">>)
      [] f = Rooted(<<"w.ctx">>) -> Rooted(<<"w.md">>)

CtxFiles ==
    {Rooted(<<"p", "x.ctx">>), Rooted(<<"p", "y.ctx">>), Rooted(<<"p", "q", "z.ctx">>),
     Rooted(<<"w.ctx">>)}

\* the directory a clean-all was given, as the set of files below it
Below(dir) ==
    CASE dir \in {Rel(<<"p">>), Rooted(<<"p">>)} -> CliFiles \ {Rooted(<<"w.ctx">>)}
      [] dir = Rel(<<"p", "q">>) ->
            {Rooted(<<"p", "q", "y.md">>), Rooted(<<"p", "q", "z.md">>),
             Rooted(<<"p", "q", "z.ctx">>)}
      [] OTHER -> CliFiles

Gone == cli.before \ DOMAIN fs

\* C16: after a clean-all without --force every file that is gone was a .ctx
\* file below the directory whose .md file was there, and a .ctx file without
\* its .md file is still there; after a clean-all with --force (and without
\* --dry-run) every .ctx file below the directory is gone, unless os.Remove
\* failed on it; no other file is ever removed, and none is created.
C16_CleanAll ==
    cli.cmd = "clean-all" =>
        /\ DOMAIN fs \subseteq cli.before
        /\ Gone \subseteq (CtxFiles \cap Below(cli.arg))
        /\ ~cli.force => \A f \in Gone : Counterpart(f) \in cli.before
        /\ ~cli.force =>
              \A f \in cli.before \cap CtxFiles : Counterpart(f) \notin cli.before => f \in DOMAIN fs
        /\ (cli.force /\ ~cli.dryRun) =>
              \A f \in cli.before \cap CtxFiles \cap Below(cli.arg) : f \in Gone \/ f \in cli.failed
        /\ (~cli.force /\ ~cli.dryRun) =>
              \A f \in cli.before \cap CtxFiles \cap Below(cli.arg) :
                  Counterpart(f) \in cli.before => (f \in Gone \/ f \in cli.failed)

\* a clean-all without --force has removed p/x.ctx and left p/y.ctx, whose
\* name has a .md file in p/q only
C16_Witness ==
    /\ cli.cmd = "clean-all"
    /\ ~cli.force /\ ~cli.dryRun
    /\ cli.arg = Rel(<<"p">>)
    /\ Gone = {Rooted(<<"p", "x.ctx">>), Rooted(<<"p", "q", "z.ctx">>)}
    /\ Rooted(<<"p", "y.ctx">>) \in DOMAIN fs
    /\ Rooted(<<"p", "q", "y.md">>) \in DOMAIN fs

\* a clean-all with --force has removed the .ctx files without a .md file
C16_WitnessForce ==
    /\ cli.cmd = "clean-all"
    /\ cli.force /\ ~cli.dryRun
    /\ cli.arg = Rel(<<".">>)
    /\ Gone = CtxFiles

\* C17: after a clean or a clean-all with --dry-run the files are the files
\* that were there before.
C17_DryRun ==
    (cli.cmd \in {"clean", "clean-all"} /\ cli.dryRun) => DOMAIN fs = cli.before

\* a clean-all with --dry-run and --force has run over four .ctx files
C17_Witness ==
    /\ cli.cmd = "clean-all"
    /\ cli.dryRun /\ cli.force
    /\ cli.arg = Rel(<<".">>)
    /\ CtxFiles \subseteq DOMAIN fs

\* a clean with --dry-run has run on a source whose .ctx file exists
C17_WitnessClean ==
    /\ cli.cmd = "clean"
    /\ cli.dryRun
    /\ cli.arg = Rel(<<"p", "x.md">>)
    /\ cli.output = EmptyPath
    /\ Rooted(<<"p", "x.ctx">>) \in DOMAIN fs

(***************************************************************************)
(* Termination.  The files are a, b and c with at most MaxDepthRefs        *)
(* references between them, and d, which declares none.  A call that has   *)
(* been made keeps running: the steps of Resolve and GetDependencyChain    *)
(* are taken as long as one of them can be taken.                          *)
(***************************************************************************)
MaxDepthRefs == 3

InitDepth ==
    /\ \E ca \in Configs(MaxDepthRefs) :
       LET ka == AddNew(<<"a">>, Mentions(ca)) IN
       \E cb \in Choices("b", ka, MaxDepthRefs - RefCount(ca)) :
       LET kb == AddNew(ka, Mentions(cb)) IN
       \E cc \in Choices("c", kb, MaxDepthRefs - RefCount(ca) - RefCount(cb)) :
          LET cfg == [n \in Names |-> CASE n = "a" -> ca [] n = "b" -> cb
                                        [] n = "c" -> cc [] OTHER -> Plain]
          IN  /\ Cardinality({n \in Names : cfg[n].st # "ok"}) <= MaxFaults
              /\ Canonical(cfg)
              /\ fs = MkFs(cfg)
    /\ cwdOK \in BOOLEAN
    /\ cwdOK \/ \A p \in DOMAIN fs : fs[p] = FileLines(EmptyPath, <<>>, <<TextLine(<<p.segs[1]>>)>>)
    /\ InitRun

\* the steps of a call that has been made, up to its return to the caller
Run ==
    \/ EntryAbsError \/ EntryCircular \/ EntryMark
    \/ OpenError \/ ParseError \/ ParseOK
    \/ ExtendsCall \/ ExtendsSkip \/ ExtendsFail \/ ExtendsDone
    \/ IncludeCall \/ IncludeFail \/ IncludeDone
    \/ Finish \/ Complete

SpecDepth == InitDepth /\ [][Next]_vars /\ WF_vars(Run)

\* the number of distinct files of the reference graph: the start file and
\* every path a reference leads to
GraphSize == Cardinality(Reachable(StartAbs))

\* C20 as stated: the calls on the stack are never more than the files of the
\* graph.
C20_DepthAsStated == stack # <<>> => (AbsWorks => Len(stack) <= GraphSize)

\* C20 amended (depth): the calls that are past the cycle check are never
\* more than the files of the graph, and the stack is at most one call
\* deeper: by the call that has just been made and has not yet looked its
\* path up in visited (one call alone is within the bound on every graph,
\* the start file being one of its files)
C20_Depth ==
    Len(stack) > 1 =>
        (AbsWorks =>
            /\ Cardinality(Marked) <= GraphSize
            /\ Len(stack) <= GraphSize + 1
            /\ Len(stack) = GraphSize + 1 => Top.pc = "entry")

\* C20 amended (termination): every call that is made returns
C20_Returns == (op # "none") ~> (op = "none")

\* C20 amended: Resolve and GetDependencyChain terminate on every graph, and
\* the depth of the recursion is bounded by the number of files as C20_Depth
\* says.
C20_Terminates == []C20_Depth /\ C20_Returns

\* on a cycle of three files the stack holds four calls
C20_Witness ==
    /\ Len(stack) = 4
    /\ GraphSize = 3
    /\ AllReadable
    /\ Top.pc = "entry"
    /\ Top.fn = "GetDependencyChain"

(***************************************************************************)
(* Resolve and GetDependencyChain side by side: one is called after the    *)
(* other on the same files, and what the second returns and the files it   *)
(* went through are held against the first's.                              *)
(***************************************************************************)
\* an error without the messages of the frames it was passed through
RECURSIVE Unwrapped(_)
Unwrapped(err) ==
    IF err = NoError THEN err
    ELSE IF err[1].kind \in {"extends", "include"} THEN Unwrapped(Tail(err))
    ELSE err

\* the files in the order a depth-first walk comes to them: the file, what
\* its parent leads to, what its peers lead to as declared
RECURSIVE PreOrder(_)
PreOrder(p) == <<p>> \o Flatten([i \in DOMAIN DepSeq(p) |-> PreOrder(DepSeq(p)[i])])

\* the error resolveErr of a Resolve and the error chainErr of a
\* GetDependencyChain say the same: both nil, or the same failure
SameFailure(resolveErr, chainErr) ==
    /\ (resolveErr = NoError) <=> (chainErr = NoError)
    /\ chainErr = Unwrapped(resolveErr)
    /\ chainErr # NoError => chainErr[1].kind \in {"circular", "open", "parsefile", "abs"}

\* C21 (the two calls): a GetDependencyChain and a Resolve on the same files
\* both succeed or both fail, with the same failure at the same path, and
\* have marked the same paths in the same order
C21_Alike ==
    /\ Returned("GetDependencyChain") =>
           \A i \in ResultsOf("Resolve") :
               SameFailure(results[i].err, ret.err) /\ results[i].visits = visits
    /\ Returned("Resolve") =>
           \A i \in ResultsOf("GetDependencyChain") :
               SameFailure(ret.err, results[i].err) /\ results[i].visits = visits

\* C21 (the order): a call that succeeds has gone through the files depth
\* first, the parent before the peers, the peers as declared
C21_DepthFirst ==
    (Returned("Resolve") \/ Returned("GetDependencyChain")) =>
        (Succeeded(ret) => visits = PreOrder(StartAbs))

\* C21: Resolve and GetDependencyChain succeed on the same files, visit the
\* files in the same depth-first order (parent first, then the peers in
\* declared order) and fail at the same path for the same reason.
C21_SameTraversal == C21_Alike /\ C21_DepthFirst

\* after a Resolve, GetDependencyChain has gone through a parent and two
\* peers and succeeded
C21_Witness ==
    /\ Returned("GetDependencyChain")
    /\ ResultsOf("Resolve") # {}
    /\ Succeeded(ret)
    /\ HasParent(StartAbs)
    /\ Len(Peers(StartAbs)) = 2
    /\ Len(visits) >= 4

\* after a Resolve, GetDependencyChain has failed two references away
C21_WitnessFailure ==
    /\ Returned("GetDependencyChain")
    /\ ResultsOf("Resolve") # {}
    /\ ~Succeeded(ret)
    /\ Len(visits) >= 3
    /\ Len(results[1].err) > Len(ret.err)

(***************************************************************************)
(* A header that is never closed.                                          *)
(***************************************************************************)
\* the first line is the delimiter and no later line is
Unclosed(ls) == HasHeader(ls) /\ Closing(ls) > Len(ls)

\* the texts Resolve gets for the parent and the peers of p, a blank line
\* between them, and nothing of p's own
RECURSIVE Between(_, _)
Between(texts, sep) ==
    IF texts = <<>> THEN <<>>
    ELSE IF Len(texts) = 1 THEN texts[1]
    ELSE texts[1] \o sep \o Between(Tail(texts), sep)

ReferredText(p) ==
    Between(SelectSeq([i \in DOMAIN DepSeq(p) |-> Resolved(DepSeq(p)[i])],
                      LAMBDA t : t # <<>>),
            BlankLine)

\* C23 (the parser): of a file whose header is never closed every line after
\* the first is metadata and the body is empty
C23_AllMetadata ==
    \A p \in DOMAIN fs :
        Unclosed(fs[p]) =>
            /\ ScanLines(fs[p], 1, FALSE, <<>>, <<>>) =
                   [frontmatterLines |-> Tail(fs[p]), contentLines |-> <<>>]
            /\ ParseFrontmatter(fs[p]).content = <<>>
            /\ ParseFrontmatter(fs[p]).err = NoError <=>
                   (Len(fs[p]) = 1 \/ ~YamlFails(Tail(fs[p])))

\* C23 (the call): a call of Resolve that has parsed such a file holds the
\* header its lines make and no body
C23_NoBody ==
    \A k \in DOMAIN stack :
        (Parsed(stack[k]) /\ Unclosed(fs[stack[k].absPath])) =>
            /\ stack[k].content = <<>>
            /\ stack[k].fm = IF Len(fs[stack[k].absPath]) = 1 THEN ZeroFrontmatter
                              ELSE YamlUnmarshal(Tail(fs[stack[k].absPath]))

\* C23 (the result): when Resolve of such a file succeeds, the text is that
\* of its parent and peers and nothing else
C23_OnlyReferred ==
    (Returned("Resolve") /\ AbsWorks) =>
        (Unclosed(fs[StartAbs]) =>
            /\ WellFormed(StartAbs) => (Succeeded(ret) <=> Sound)
            /\ Succeeded(ret) => ret.text = ReferredText(StartAbs))

\* C23: when the first line of a file is the delimiter and no later line
\* closes the header, ParseFrontmatter takes every remaining line for
\* metadata and returns an empty body, and Resolve of the file, the metadata
\* being YAML, returns the texts of its parent and peers and nothing of its
\* own.
C23_Unclosed == C23_AllMetadata /\ C23_NoBody /\ C23_OnlyReferred

\* a file with an unclosed header that names b as parent and as peer has been
\* resolved: b's text twice
C23_Witness ==
    /\ Returned("Resolve")
    /\ Unclosed(fs[StartAbs])
    /\ Len(fs[StartAbs]) >= 3
    /\ Succeeded(ret)
    /\ ret.text = <<"b", NL, NL, "b">>

\* a file with an unclosed header and no reference has been resolved: no text
C23_WitnessEmpty ==
    /\ Returned("Resolve")
    /\ Unclosed(fs[StartAbs])
    /\ Len(fs[StartAbs]) >= 3
    /\ Succeeded(ret)
    /\ ret.text = <<>>

(***************************************************************************)
(* cmd/fusectx: build and build-all.  The directories p, q and r hold a    *)
(* fusectx.md each, with at most MaxBuildRefs references between them: to  *)
(* one another, to the .ctx file next to one of them, or to /base.md,      *)
(* which may be missing when one refers to it; at most MaxFaults of them   *)
(* are malformed, and at most one .ctx file is there from an earlier       *)
(* build.  A command calls                                                 *)
(* Resolve, whose steps are the ones above, and goes on when it returns;   *)
(* cli holds the command that is running or ran last, results what each    *)
(* Resolve of a command returned and the files it was run on.  The texts   *)
(* that are written are made of the one-letter bodies and blank lines.     *)
(***************************************************************************)
MaxBuilds == 1
MaxBatches == 1
MaxBuildRefs == 1

ProjectDirs == <<"p", "q", "r">>

SourceName == "fusectx.md"

OutputName == "fusectx.ctx"

BaseFile == Rooted(<<"base.md">>)

PrintedFile == Rooted(<<"out.txt">>)

\* every file there may be, in the order filepath.Walk comes to it from /:
\* the names of a directory in lexical order
WalkOrder ==
    <<BaseFile, PrintedFile,
      Rooted(<<"p", OutputName>>), Rooted(<<"p", SourceName>>),
      Rooted(<<"q", OutputName>>), Rooted(<<"q", SourceName>>),
      Rooted(<<"r", OutputName>>), Rooted(<<"r", SourceName>>)>>

\* the path filepath.Walk(dir) hands to its callback for the file f below dir
WalkPath(dir, f) ==
    FilepathJoin(dir, Rel(SubSeq(f.segs, Len(Abs(dir).segs) + 1, Len(f.segs))))

\* findFusectxFiles(dir): the files below dir named fusectx.md, as Walk names them
findFusectxFiles(dir) ==
    LET found == SelectSeq(WalkOrder,
                           LAMBDA f : /\ Exists(f)
                                      /\ Under(Abs(dir), f)
                                      /\ BaseName(f) = SourceName)
    IN  [i \in DOMAIN found |-> WalkPath(dir, found[i])]

\* bufio.Scanner over the bytes os.WriteFile wrote: the text split at its
\* newlines, no line for an empty rest
RECURSIVE SplitLines(_, _)
SplitLines(text, line) ==
    IF text = <<>> THEN (IF line = <<>> THEN <<>> ELSE <<TextLine(line)>>)
    ELSE IF Head(text) = NL THEN <<TextLine(line)>> \o SplitLines(Tail(text), <<>>)
    ELSE SplitLines(Tail(text), Append(line, Head(text)))

\* the file system after os.WriteFile(file, content): the file is created or
\* its content replaced
WriteFile(file, content) ==
    [f \in DOMAIN fs \cup {Abs(file)} |->
        IF f = Abs(file) THEN SplitLines(content, <<>>) ELSE fs[f]]

outputFile(file) == ReplaceSuffix(file, MdSuffix, CtxSuffix)

\* what a command got from Resolve for a file, the files it ran on, and
\* whether it wrote the text to a file
Built(run, turn, written) ==
    [op |-> op, file |-> start, run |-> run, turn |-> turn, text |-> ret.text,
     err |-> ret.err, visits |-> visits, before |-> fs, written |-> written]

\* the call resolver.Resolve(file, nil) of a command
ResolveFor(file) ==
    /\ start' = file
    /\ visited' = {}
    /\ stack' = <<Frame("Resolve", file, {})>>
    /\ ret' = NoResult
    /\ visits' = <<>>

BuildRun(cmd, arg, output) == [cmd |-> cmd, arg |-> arg, output |-> output]

BuildSources == {Rel(<<ProjectDirs[i], SourceName>>) : i \in DOMAIN ProjectDirs}

BuildOutputs == {EmptyPath, Rel(<<"out.txt">>)}

\* fusectx build <source_file> [-o output], up to the call of Resolve
buildCmd ==
    /\ Idle
    /\ Cardinality(ResultsOf("build")) < MaxBuilds
    /\ \E sourceFile \in BuildSources, output \in BuildOutputs :
          /\ cli' = BuildRun("build", sourceFile, output)
          /\ ResolveFor(sourceFile)
    /\ op' = "build"
    /\ UNCHANGED <<fs, cwdOK, results, parked>>

\* Resolve has failed: build returns the error
buildFail ==
    /\ op = "build" /\ stack = <<>>
    /\ ret.err # NoError
    /\ results' = Append(results, Built(1, 1, FALSE))
    /\ op' = "none"
    /\ UNCHANGED <<fs, cwdOK, start, stack, visited, ret, parked, cli, visits>>

\* Resolve has returned the text: build writes it to the output file, or
\* prints it when none was given
buildWrite ==
    /\ op = "build" /\ stack = <<>>
    /\ ret.err = NoError
    /\ \E written \in BOOLEAN :
          /\ written => cli.output # EmptyPath
          /\ fs' = IF written THEN WriteFile(cli.output, ret.text) ELSE fs
          /\ results' = Append(results, Built(1, 1, written))
    /\ op' = "none"
    /\ UNCHANGED <<cwdOK, start, stack, visited, ret, parked, cli, visits>>

BuildDirs == {Rel(<<".">>), Rel(<<"q">>)}

\* the runs of build-all that came to a file
BatchesRun == Cardinality({i \in ResultsOf("build-all") : results[i].turn = 1})

Batch(dir, files) ==
    [cmd |-> "build-all", arg |-> dir, files |-> files, run |-> BatchesRun + 1,
     next |-> 1, pc |-> "loop", before |-> fs, failed |-> {}]

InBatch(pc) == op = "build-all" /\ stack = <<>> /\ cli.pc = pc

\* fusectx build-all [directory], up to the loop over the files found
buildAllCmd ==
    /\ Idle
    /\ BatchesRun < MaxBatches
    /\ \E targetDir \in BuildDirs : cli' = Batch(targetDir, findFusectxFiles(targetDir))
    /\ op' = "build-all"
    /\ UNCHANGED <<fs, cwdOK, start, stack, visited, ret, results, parked, visits>>

\* the loop takes the next file and calls Resolve
buildAllResolve ==
    /\ InBatch("loop")
    /\ cli.next <= Len(cli.files)
    /\ ResolveFor(cli.files[cli.next])
    /\ cli' = [cli EXCEPT !.pc = "resolved"]
    /\ UNCHANGED <<fs, cwdOK, op, results, parked>>

\* a build-all that gives up at the first file that does not resolve
buildAllGiveUp ==
    /\ InBatch("resolved")
    /\ ret.err # NoError
    /\ results' = Append(results, Built(cli.run, cli.next, FALSE))
    /\ cli' = [cli EXCEPT !.next = Len(cli.files) + 1, !.pc = "loop"]
    /\ UNCHANGED <<fs, cwdOK, start, stack, visited, ret, op, parked, visits>>

\* Resolve has failed: the failure is printed and the loop continues
buildAllContinue ==
    /\ InBatch("resolved")
    /\ ret.err # NoError
    /\ results' = Append(results, Built(cli.run, cli.next, FALSE))
    /\ cli' = [cli EXCEPT !.next = cli.next + 1, !.pc = "loop"]
    /\ UNCHANGED <<fs, cwdOK, start, stack, visited, ret, op, parked, visits>>

\* Resolve has returned the text: it is written next to the source, as
\* fusectx.ctx; a failure of os.WriteFile (at most MaxFaults of them) is
\* printed, and the loop continues
buildAllWrite ==
    /\ InBatch("resolved")
    /\ ret.err = NoError
    /\ \E written \in BOOLEAN :
          /\ ~written => Cardinality(cli.failed) < MaxFaults
          /\ fs' = IF written THEN WriteFile(outputFile(start), ret.text) ELSE fs
          /\ results' = Append(results, Built(cli.run, cli.next, written))
          /\ cli' = [cli EXCEPT !.next = cli.next + 1, !.pc = "loop",
                                !.failed = IF written THEN cli.failed
                                           ELSE cli.failed \cup {Abs(outputFile(start))}]
    /\ UNCHANGED <<cwdOK, start, stack, visited, ret, op, parked, visits>>

\* no file is left: build-all returns
buildAllReturn ==
    /\ InBatch("loop")
    /\ cli.next > Len(cli.files)
    /\ cli' = [cli EXCEPT !.pc = "done"]
    /\ op' = "none"
    /\ UNCHANGED <<fs, cwdOK, start, stack, visited, ret, results, parked, visits>>

\* what a fusectx.md may refer to, from the directory it lies in
BuildRefs ==
    {Rel(<<"..", "base.md">>)}
    \cup {Rel(<<"..", ProjectDirs[i], n>>) : i \in DOMAIN ProjectDirs, n \in {SourceName, OutputName}}

BuildConfigs(budget) ==
    {Config("bad", EmptyPath, <<>>)}
    \cup {c \in {Config("ok", e, i) : e \in {EmptyPath} \cup BuildRefs,
                                      i \in UNION {[1..m -> BuildRefs] : m \in 0..1}} :
            RefCount(c) <= budget}

\* the .ctx files an earlier build may have left: none, or one with a text
\* no build of these files gives
StaleOutputs == {{}} \cup {{Rooted(<<ProjectDirs[i], OutputName>>)} : i \in DOMAIN ProjectDirs}

MkBuildFs(cfg, base, stale) ==
    [f \in {Rooted(<<ProjectDirs[i], SourceName>>) : i \in DOMAIN ProjectDirs}
           \cup (IF base THEN {BaseFile} ELSE {}) \cup stale |->
        IF f = BaseFile THEN <<TextLine(<<"z">>)>>
        ELSE IF f \in stale THEN <<TextLine(<<"o">>)>>
        ELSE IF cfg[f.segs[1]].st = "bad" THEN BadLines(<<TextLine(<<f.segs[1]>>)>>)
        ELSE FileLines(cfg[f.segs[1]].ext, cfg[f.segs[1]].incs, <<TextLine(<<f.segs[1]>>)>>)]

InitBuild ==
    /\ \E cp \in BuildConfigs(MaxBuildRefs) :
       \E cq \in BuildConfigs(MaxBuildRefs - RefCount(cp)) :
       \E cr \in BuildConfigs(MaxBuildRefs - RefCount(cp) - RefCount(cq)) :
       \E base \in BOOLEAN, stale \in StaleOutputs :
          LET cfg == [d \in {"p", "q", "r"} |-> CASE d = "p" -> cp [] d = "q" -> cq [] OTHER -> cr]
          IN  /\ Cardinality({d \in DOMAIN cfg : cfg[d].st = "bad"}) <= MaxFaults
              /\ base \/ \E d \in DOMAIN cfg : Rel(<<"..", "base.md">>) \in ConfigRefs(cfg[d])
              /\ fs = MkBuildFs(cfg, base, stale)
    /\ cwdOK = TRUE
    /\ InitRun

NextBuild ==
    \/ buildCmd
    \/ buildFail
    \/ buildWrite
    \/ buildAllCmd
    \/ buildAllResolve
    \/ buildAllContinue
    \/ buildAllWrite
    \/ buildAllReturn
    \/ EntryCircular
    \/ EntryMark
    \/ OpenError
    \/ ParseError
    \/ ParseOK
    \/ ExtendsCall
    \/ ExtendsSkip
    \/ ExtendsFail
    \/ ExtendsDone
    \/ IncludeCall
    \/ IncludeFail
    \/ IncludeDone
    \/ Finish

SpecBuild == InitBuild /\ [][NextBuild]_vars

\* the files build-all is to find below a directory, in the order of the walk
Discovered(dir) ==
    IF dir = Rel(<<"q">>) THEN <<Rel(<<"q", SourceName>>)>>
    ELSE <<Rel(<<"p", SourceName>>), Rel(<<"q", SourceName>>), Rel(<<"r", SourceName>>)>>

\* the .ctx file that belongs to a fusectx.md: same directory
CtxOf(file) == Rooted(<<file.segs[1], OutputName>>)

\* the file f is now as it was in the files `was`: there or not, same lines
Unchanged(was, f) ==
    /\ f \in DOMAIN fs <=> f \in DOMAIN was
    /\ f \in DOMAIN fs => fs[f] = was[f]

\* every file the chain of the start file reaches is as it was in `was`
ChainUnchanged(was) == \A f \in Reachable(StartAbs) : Unchanged(was, f)

\* what the files of the build-all that is running, or ran last, came to
BatchResults == SelectSeq(results, LAMBDA r : r.op = "build-all" /\ r.run = cli.run)

\* C22 (the batch goes on): when build-all has returned, every fusectx.md
\* below the directory has had its turn, in the order of the walk, whatever
\* became of the ones before it
C22_Continues ==
    (cli.cmd = "build-all" /\ cli.pc = "done") =>
        [i \in DOMAIN BatchResults |-> BatchResults[i].file] = Discovered(cli.arg)

\* C22 (the outputs): the .ctx of a file that did not resolve is as it was
\* before the batch; the .ctx of a file that resolved holds the text Resolve
\* returned, unless os.WriteFile failed, and then it is as it was
C22_Outputs ==
    cli.cmd = "build-all" =>
        \A i \in DOMAIN BatchResults :
            LET r == BatchResults[i] IN
            /\ ~Succeeded(r) => (~r.written /\ Unchanged(cli.before, CtxOf(r.file)))
            /\ (Succeeded(r) /\ r.written) =>
                  (CtxOf(r.file) \in DOMAIN fs /\ TextOf(fs[CtxOf(r.file)]) = r.text)
            /\ (Succeeded(r) /\ ~r.written) =>
                  (CtxOf(r.file) \in cli.failed /\ Unchanged(cli.before, CtxOf(r.file)))

\* C22 as stated (alone): what build-all gets for a file is what a build of
\* that file alone got
C22_AsAloneStated ==
    InBatch("resolved") =>
        \A j \in ResultsOf("build") :
            results[j].file = start =>
                (results[j].text = ret.text /\ results[j].err = ret.err)

\* C22 amended (alone): what build-all gets for a file is what a build of
\* that file alone gets, when the files its chain reaches are the same for
\* both
C22_AsAlone ==
    /\ InBatch("resolved") =>
          \A j \in ResultsOf("build") :
              (results[j].file = start /\ ChainUnchanged(results[j].before)) =>
                  (results[j].text = ret.text /\ results[j].err = ret.err)
    /\ (op = "build" /\ stack = <<>>) =>
          \A i \in ResultsOf("build-all") :
              (results[i].file = start /\ ChainUnchanged(results[i].before)) =>
                  (results[i].text = ret.text /\ results[i].err = ret.err)

\* C22 amended: in build-all a file that does not resolve does not stop the
\* batch: every other fusectx.md found is resolved and, when it resolves, its
\* .ctx is written (unless the write fails); no .ctx is created or overwritten
\* for a file that did not resolve; and the outcome for a file is that of
\* building it alone on the same files: a file whose chain reaches a .ctx that
\* the batch has written before its turn gets the text that was written.
C22_Batch == C22_Continues /\ C22_Outputs /\ C22_AsAlone

\* build-all has gone through p, q and r: q did not resolve and its .ctx of
\* an earlier build is as it was, p and r are written; r had been built alone
\* before
C22_Witness ==
    /\ cli.cmd = "build-all" /\ cli.pc = "done"
    /\ cli.arg = Rel(<<".">>)
    /\ Len(BatchResults) = 3
    /\ Succeeded(BatchResults[1]) /\ BatchResults[1].written
    /\ ~Succeeded(BatchResults[2])
    /\ Succeeded(BatchResults[3]) /\ BatchResults[3].written
    /\ CtxOf(Rel(<<"q", SourceName>>)) \in DOMAIN fs
    /\ TextOf(fs[CtxOf(Rel(<<"q", SourceName>>))]) = <<"o">>
    /\ results[1].op = "build"
    /\ results[1].file = Rel(<<"r", SourceName>>)
    /\ Len(results[4].text) >= 4

\* q refers to the .ctx of p: alone it did not resolve, in the batch it does
C22_WitnessWritten ==
    /\ InBatch("resolved")
    /\ start = Rel(<<"q", SourceName>>)
    /\ Succeeded(ret)
    /\ ret.text = <<"p", NL, NL, "q">>
    /\ \E j \in ResultsOf("build") : results[j].file = start /\ ~Succeeded(results[j])

====
